---- MODULE Spec2Model ----
(***************************************************************************)
(* Identity and credential lifecycle of the dynamic-listing backend:       *)
(* the auth controller's handlers over the users table, and the rating     *)
(* controller's handlers over the ratings and listings tables.             *)
(*                                                                         *)
(* Every handler is an async function; each `await prisma...` is one       *)
(* atomic step of the store, and the synchronous code that follows it up   *)
(* to the next await (or to the response) belongs to the same step.        *)
(* Requests in flight live in `reqs`, one slot per concurrent request.     *)
(***************************************************************************)
EXTENDS Naturals, Sequences, FiniteSets, TLC

VARIABLES
  users,    \* the rows of table `users`
  reqs,     \* slot -> the request in flight there (or its last response)
  now,      \* the clock read by Date.now() / new Date(), in minutes
  nextId,   \* ids handed out so far (the store's cuid generator)
  nextTok,  \* opaque tokens handed out so far (randomstring.generate)
  ratings,  \* the rows of table `ratings`
  listings, \* the rows of table `listings`: id and the rating aggregate
  nextRating \* rating ids handed out so far (uuid())

ratingVars == <<ratings, listings, nextRating>>
vars == <<users, reqs, now, nextId, nextTok, ratings, listings, nextRating>>

----------------------------------------------------------------------------
(* Bounds of the model *)

NumSlots == 2      \* concurrent requests
MaxUsers == 2      \* rows ever created
MaxTokens == 2     \* opaque tokens ever generated
MaxTicks == 4      \* the clock stops after that many ticks
SessionTicks == 2  \* ticks of half a day in the session specification
MaxRatings == 2    \* rating rows ever created

Slots == 1..NumSlots

(* Program constants *)

OTP_TTL == 10            \* minutes: 10 * 60 * 1000 ms
RESET_TTL == 60          \* minutes: 60 * 60 * 1000 ms
MIN_PASSWORD_LENGTH == 8
JWT_TTL == 1440          \* minutes: expiresIn "1d"
INVITE_TTL == 10080      \* minutes: 7 * 24 * 60 * 60 * 1000 ms

----------------------------------------------------------------------------
(* Values *)

\* A nullable column or an optional input: <<>> is null / undefined.
None == <<>>
Some(v) == <<v>>
Val(o) == o[1]

\* An email address is <<local part, domain>>.
Emails == {<<"a", "x.com">>, <<"b", "x.com">>}
LocalPart(email) == email[1]

Passwords == {"password1", "password2", "short"}
Codes == {"111111", "222222"}
TokenIds == 1..(MaxTokens + 1)

\* bcrypt.hash / bcrypt.compare: the hash is not the password, and compare
\* accepts exactly the password the hash was made from (the salt plays no
\* part in what compare answers).
BcryptHash(password) == [bcrypt |-> password]
BcryptCompare(password, hash) == hash = BcryptHash(password)

\* jwt.sign({ id }, secret, { expiresIn: "1d" })
JWT_SECRET == "JWT_SECRET"
generateToken(userId) == [id |-> userId, iat |-> now, key |-> JWT_SECRET]

----------------------------------------------------------------------------
(* The users table *)

\* A row as prisma.user.create fills it: the columns' defaults of the
\* migration, overridden by `data`.
NewRow(id, data) ==
  data @@
  [id |-> id,
   password |-> None,
   image |-> None,
   googleId |-> None,
   role |-> "user",
   otp |-> None,
   otpExpires |-> None,
   isVerified |-> FALSE,
   verificationToken |-> None,
   resetPasswordToken |-> None,
   resetPasswordExpires |-> None]

\* prisma's `data` overrides win: f @@ g keeps f where both are defined.
Override(row, data) == data @@ row

FindByEmail(email) ==
  IF \E u \in users : u.email = email
  THEN Some(CHOOSE u \in users : u.email = email)
  ELSE None

FindById(id) ==
  IF \E u \in users : u.id = id
  THEN Some(CHOOSE u \in users : u.id = id)
  ELSE None

\* the table, were it without unique indexes
UniqueViolationNever(row, others) == FALSE

\* UNIQUE INDEX users_email_key, users_googleId_key (NULLs never collide).
UniqueViolation(row, others) ==
  \E u \in others :
    \/ u.email = row.email
    \/ (row.googleId # None /\ u.googleId = row.googleId)

----------------------------------------------------------------------------
(* Requests and responses *)

\* What the client receives: res.status(status).json({ message, token, user }).
Response(status, message, token, user) ==
  [status |-> status, message |-> message, token |-> token, user |-> user]

\* A response that carries only a message.
Message(status, message) == Response(status, message, None, None)

Idle ==
  [kind |-> "idle", pc |-> "idle", name |-> None, email |-> None,
   password |-> None, token |-> None, otp |-> None, expires |-> None,
   googleId |-> None, image |-> None, snap |-> None, resp |-> None,
   bearer |-> None, principal |-> None, id |-> None, newPassword |-> None,
   mail |-> None]

\* Nothing is in flight in the slot.
Vacant(s) == reqs[s].pc \in {"idle", "done"}

\* A new request takes the first vacant slot (which slot a request sits in
\* is immaterial; this picks one numbering of the requests in flight).
Free(s) == Vacant(s) /\ \A t \in Slots : t < s => ~Vacant(t)

\* A request of the given kind with the given body / query fields.
Req(kind, fields) == Override(Idle, [kind |-> kind] @@ fields)

\* The request suspended at its next await, with locals updated.
At(r, pc, locals) == Override(r, [pc |-> pc] @@ locals)

\* res.status(..).json(..): the handler ends and its locals are gone; the
\* slot keeps the request as it was sent and the response.
Done(r, resp) ==
  [r EXCEPT !.pc = "done", !.snap = None, !.expires = None,
            !.principal = None, !.resp = Some(resp)]

Put(s, r) == reqs' = [reqs EXCEPT ![s] = r]

\* A step of a handler of the auth or admin controller: none of them touches
\* the ratings or the listings table.
Set(s, r) == Put(s, r) /\ UNCHANGED ratingVars

\* sendMailInBackground(to, subject, html): sendMail is started and not
\* awaited; the handler goes on to its response.
sendMailInBackground(r, to) ==
  [r EXCEPT !.mail = Some([to |-> to, state |-> "pending"])]

\* the dispatch, were its failure to reach the response
MailSettledFailsRequest(r, delivered) ==
  IF delivered
  THEN [r EXCEPT !.mail = Some([Val(r.mail) EXCEPT !.state = "sent"])]
  ELSE [r EXCEPT !.mail = Some([Val(r.mail) EXCEPT !.state = "failed"]),
                 !.resp = Some(Message(500, "Internal server error"))]

\* The promise of sendMail settles: it resolves, or it rejects into the
\* .catch of sendMailInBackground, which logs the error.
MailSettled(r, delivered) ==
  [r EXCEPT !.mail = Some([Val(r.mail) EXCEPT
                             !.state = IF delivered THEN "sent" ELSE "failed"])]

\* sendMail(to, subject, html, text) in the background
SendMail(s, delivered) ==
  /\ reqs[s].mail # None
  /\ Val(reqs[s].mail).state = "pending"
  /\ Set(s, MailSettled(reqs[s], delivered))
  /\ UNCHANGED <<users, now, nextId, nextTok>>

ServerError == Message(500, "Internal server error")

\* The public projection returned with a session token.
\* One listing nobody has rated: @default(0) for rating and reviewCount.
NoRatings ==
  /\ ratings = {}
  /\ listings = {[id |-> 1, rating |-> <<0, 1>>, reviewCount |-> 0]}
  /\ nextRating = 1

PublicUser(u) ==
  [id |-> u.id, name |-> u.name, email |-> u.email, role |-> u.role,
   image |-> u.image]

Init ==
  /\ users = {}
  /\ reqs = [s \in Slots |-> Idle]
  /\ now = 0
  /\ nextId = 1
  /\ nextTok = 1
  /\ NoRatings

----------------------------------------------------------------------------
(* signup: POST /auth/signup *)

UserAlreadyExists == Message(400, "User already exists")
UserCreated ==
  Message(201, "User created successfully. Please check your email to verify your account.")

\* if (existingUser), never
SignupRejectsNever(existingUser) == FALSE

\* if (existingUser)
SignupRejects(existingUser) == existingUser # None

\* await prisma.user.findUnique({ where: { email } }) and the early return
SignupFind(s, name, email, password) ==
  LET r == Req("signup", [name |-> Some(name), email |-> Some(email),
                          password |-> Some(password)])
  IN /\ Free(s)
     /\ IF SignupRejects(FindByEmail(email))
        THEN Set(s, Done(r, UserAlreadyExists))
        ELSE Set(s, At(r, "create", <<>>))
     /\ UNCHANGED <<users, now, nextId, nextTok>>

\* the data of the create, were the account made verified
SignupDataVerified(name, email, password, verificationToken) ==
  [name |-> name, email |-> email,
   password |-> Some(BcryptHash(password)),
   verificationToken |-> Some(verificationToken), isVerified |-> TRUE]

\* data: { name, email, password: hashedPassword, verificationToken }
SignupData(name, email, password, verificationToken) ==
  [name |-> name, email |-> email,
   password |-> Some(BcryptHash(password)),
   verificationToken |-> Some(verificationToken)]

\* await prisma.user.create({ data }); a unique-index violation throws into
\* the catch block.
SignupCreate(s) ==
  LET r == reqs[s]
      row == NewRow(nextId, SignupData(Val(r.name), Val(r.email),
                                       Val(r.password), nextTok))
  IN /\ r.kind = "signup" /\ r.pc = "create"
     /\ IF UniqueViolation(row, users)
        THEN /\ Set(s, Done(r, ServerError))
             /\ UNCHANGED <<users, nextId, nextTok>>
        ELSE /\ nextId <= MaxUsers /\ nextTok <= MaxTokens
             /\ users' = users \cup {row}
             /\ nextId' = nextId + 1
             /\ nextTok' = nextTok + 1
             /\ Set(s, Done(sendMailInBackground(r, Val(r.email)), UserCreated))
     /\ UNCHANGED now

----------------------------------------------------------------------------
(* verifyEmail: GET /auth/verify-email?token= *)

InvalidVerificationToken == Message(400, "Invalid verification token")
InvalidOrExpiredVerificationToken ==
  Message(400, "Invalid or expired verification token")
EmailVerified ==
  Message(200, "Email verified successfully! You can now log in.")

FindByVerificationToken(token) ==
  IF \E u \in users : u.verificationToken = token
  THEN Some(CHOOSE u \in users : u.verificationToken = token)
  ELSE None

\* prisma.user.update({ where, data }): the row `where` selects takes `data`.
UpdateRow(u, data) == (users \ {u}) \cup {Override(u, data)}

\* the token check and await prisma.user.findFirst({ where: { verificationToken } })
VerifyEmailFind(s, token) ==
  LET r == Req("verifyEmail", [token |-> token])
      user == FindByVerificationToken(token)
  IN /\ Free(s)
     /\ IF token = None
        THEN Set(s, Done(r, InvalidVerificationToken))
        ELSE IF user = None
        THEN Set(s, Done(r, InvalidOrExpiredVerificationToken))
        ELSE Set(s, At(r, "update", [snap |-> user]))
     /\ UNCHANGED <<users, now, nextId, nextTok>>

\* the data of the update, were the token left in place
VerifyEmailDataKeepsToken == [isVerified |-> TRUE]

\* data: { isVerified: true, verificationToken: null }
VerifyEmailData == [isVerified |-> TRUE, verificationToken |-> None]

\* await prisma.user.update({ where: { id }, data: { isVerified, verificationToken } })
VerifyEmailUpdate(s) ==
  LET r == reqs[s]
      user == FindById(Val(r.snap).id)
  IN /\ r.kind = "verifyEmail" /\ r.pc = "update"
     /\ IF user = None
        THEN /\ Set(s, Done(r, ServerError))
             /\ UNCHANGED users
        ELSE /\ users' = UpdateRow(Val(user), VerifyEmailData)
             /\ Set(s, Done(r, EmailVerified))
     /\ UNCHANGED <<now, nextId, nextTok>>

----------------------------------------------------------------------------
(* login: POST /auth/login *)

InvalidEmailOrPassword == Message(401, "Invalid email or password")
PleaseVerify ==
  Message(403, "Please verify your email address before logging in.")
LoginSuccessful(u) ==
  Response(200, "Login successful", Some(generateToken(u.id)),
           Some(PublicUser(u)))

\* if (!user || !user.password)
LoginRejectsUser(user) == user = None \/ Val(user).password = None

\* await prisma.user.findUnique({ where: { email } }) and the early return
LoginFind(s, email, password) ==
  LET r == Req("login", [email |-> Some(email), password |-> Some(password)])
      user == FindByEmail(email)
  IN /\ Free(s)
     /\ IF LoginRejectsUser(user)
        THEN Set(s, Done(r, InvalidEmailOrPassword))
        ELSE Set(s, At(r, "compare", [snap |-> user]))
     /\ UNCHANGED <<users, now, nextId, nextTok>>

\* the reply, were isVerified not looked at
LoginReplyUnchecked(user, password) ==
  IF ~BcryptCompare(password, Val(user.password))
  THEN InvalidEmailOrPassword
  ELSE LoginSuccessful(user)

\* the reply, were the mismatch given a message of its own
LoginReplyWrongPassword(user, password) ==
  IF ~BcryptCompare(password, Val(user.password))
  THEN Message(401, "Incorrect password")
  ELSE IF ~user.isVerified
  THEN PleaseVerify
  ELSE LoginSuccessful(user)

\* if (!isPasswordCorrect) 401; if (!user.isVerified) 403; else the token
LoginReply(user, password) ==
  IF ~BcryptCompare(password, Val(user.password))
  THEN InvalidEmailOrPassword
  ELSE IF ~user.isVerified
  THEN PleaseVerify
  ELSE LoginSuccessful(user)

\* await bcrypt.compare(password, user.password), then the checks on the
\* user read before it
LoginCompare(s) ==
  LET r == reqs[s]
  IN /\ r.kind = "login" /\ r.pc = "compare"
     /\ Set(s, Done(r, LoginReply(Val(r.snap), Val(r.password))))
     /\ UNCHANGED <<users, now, nextId, nextTok>>

----------------------------------------------------------------------------
(* googleAuth: POST /auth/google *)

InvalidGoogleToken == Message(400, "Invalid Google token")
InvalidGoogleCredentials == Message(400, "Invalid Google credentials")
MissingGoogleCredentials == Message(400, "Missing Google credentials")

\* name = directName || "Google User"
DefaultName(name) == IF name = None THEN "Google User" ELSE Val(name)

\* The identity the request resolves to, or the response that ends it.
\* client.verifyIdToken({ idToken }) and ticket.getPayload(): a credential
\* Google vouches for carries its payload; any other makes verifyIdToken
\* throw. A credential is [valid, payload], the payload absent or
\* [email, name, sub, picture].
ResolveGoogle(body) ==
  IF body.email # None /\ body.googleId # None
  THEN [ok |-> TRUE,
        id |-> [email |-> Val(body.email), name |-> DefaultName(body.name),
                googleId |-> Val(body.googleId), image |-> body.image]]
  ELSE IF body.credential # None
  THEN LET c == Val(body.credential)
       IN IF ~c.valid
          THEN [ok |-> FALSE, resp |-> InvalidGoogleCredentials]
          ELSE IF c.payload = None
          THEN [ok |-> FALSE, resp |-> InvalidGoogleToken]
          ELSE LET pl == Val(c.payload)
               IN [ok |-> TRUE,
                   id |-> [email |-> pl.email, name |-> DefaultName(pl.name),
                           googleId |-> pl.sub, image |-> pl.picture]]
  ELSE [ok |-> FALSE, resp |-> MissingGoogleCredentials]

\* the link branch, were it taken for linked users too
GoogleLinksAlways(user) == TRUE

\* else if (!user.googleId)
GoogleLinks(user) == user.googleId = None

\* the resolution of the identity and
\* await prisma.user.findUnique({ where: { email } }); an already linked user
\* is answered from what was read
GoogleAuthFind(s, body) ==
  LET res == ResolveGoogle(body)
      r == Req("googleAuth", [email |-> Some(res.id.email),
                              name |-> Some(res.id.name),
                              googleId |-> Some(res.id.googleId),
                              image |-> res.id.image])
      user == FindByEmail(res.id.email)
  IN /\ Free(s)
     /\ IF ~res.ok
        THEN Set(s, Done(Req("googleAuth", <<>>), res.resp))
        ELSE IF user = None
        THEN Set(s, At(r, "create", <<>>))
        ELSE IF GoogleLinks(Val(user))
        THEN Set(s, At(r, "update", [snap |-> user]))
        ELSE Set(s, Done(r, LoginSuccessful(Val(user))))
     /\ UNCHANGED <<users, now, nextId, nextTok>>

\* await prisma.user.create({ data: { email, name, googleId, isVerified: true, image } })
GoogleAuthCreate(s) ==
  LET r == reqs[s]
      row == NewRow(nextId, [email |-> Val(r.email), name |-> Val(r.name),
                             googleId |-> r.googleId, isVerified |-> TRUE,
                             image |-> r.image])
  IN /\ r.kind = "googleAuth" /\ r.pc = "create"
     /\ IF UniqueViolation(row, users)
        THEN /\ Set(s, Done(r, ServerError))
             /\ UNCHANGED <<users, nextId>>
        ELSE /\ nextId <= MaxUsers
             /\ users' = users \cup {row}
             /\ nextId' = nextId + 1
             /\ Set(s, Done(r, LoginSuccessful(row)))
     /\ UNCHANGED <<now, nextTok>>

\* the data of the link, were the account not marked verified by it
GoogleLinkDataUnverified(user, googleId, image) ==
  IF user.image # None \/ image = None
  THEN [googleId |-> googleId]
  ELSE [googleId |-> googleId, image |-> image]

\* data: { googleId, isVerified: true, image: user.image ? undefined : image }
\* with `user` the row read before the await; an undefined field is not
\* written.
GoogleLinkData(user, googleId, image) ==
  IF user.image # None \/ image = None
  THEN [googleId |-> googleId, isVerified |-> TRUE]
  ELSE [googleId |-> googleId, isVerified |-> TRUE, image |-> image]

\* await prisma.user.update({ where: { email }, data })
GoogleAuthUpdate(s) ==
  LET r == reqs[s]
      user == FindByEmail(Val(r.email))
      data == GoogleLinkData(Val(r.snap), r.googleId, r.image)
      updatedUser == Override(Val(user), data)
  IN /\ r.kind = "googleAuth" /\ r.pc = "update"
     /\ IF user = None \/ UniqueViolation(updatedUser, users \ {Val(user)})
        THEN /\ Set(s, Done(r, ServerError))
             /\ UNCHANGED users
        ELSE /\ users' = (users \ {Val(user)}) \cup {updatedUser}
             /\ Set(s, Done(r, LoginSuccessful(updatedUser)))
     /\ UNCHANGED <<now, nextId, nextTok>>

----------------------------------------------------------------------------
(* requestOTP: POST /auth/request-otp *)

OtpSent == Message(200, "OTP sent to your email.")

\* the reply, were it to tell a new account from an existing one
RequestOTPReplyTells(created) ==
  IF created THEN Message(201, "Account created. OTP sent to your email.")
  ELSE OtpSent

\* return res.status(200).json({ message: "OTP sent to your email." }), after
\* the branch that created the user as after the one that updated it
RequestOTPReply(created) == OtpSent

\* The code and its expiry are made first; then
\* await prisma.user.findUnique({ where: { email } })
RequestOTPFind(s, email, otp) ==
  LET r == Req("requestOTP", [email |-> Some(email), otp |-> Some(otp),
                              expires |-> Some(now + OTP_TTL)])
  IN /\ Free(s)
     /\ IF FindByEmail(email) = None
        THEN Set(s, At(r, "create", <<>>))
        ELSE Set(s, At(r, "update", <<>>))
     /\ UNCHANGED <<users, now, nextId, nextTok>>

\* the data of the create, were the user provisioned verified
RequestOTPCreateDataVerified(email, otp, otpExpires) ==
  [email |-> email, name |-> LocalPart(email), otp |-> otp,
   otpExpires |-> otpExpires, isVerified |-> TRUE]

\* data: { email, name: email.split("@")[0], otp, otpExpires }
RequestOTPCreateData(email, otp, otpExpires) ==
  [email |-> email, name |-> LocalPart(email), otp |-> otp,
   otpExpires |-> otpExpires]

\* await prisma.user.create({ data: { email, name, otp, otpExpires } })
RequestOTPCreate(s) ==
  LET r == reqs[s]
      row == NewRow(nextId, RequestOTPCreateData(Val(r.email), r.otp,
                                                 r.expires))
  IN /\ r.kind = "requestOTP" /\ r.pc = "create"
     /\ IF UniqueViolation(row, users)
        THEN /\ Set(s, Done([r EXCEPT !.otp = None], ServerError))
             /\ UNCHANGED <<users, nextId>>
        ELSE /\ nextId <= MaxUsers
             /\ users' = users \cup {row}
             /\ nextId' = nextId + 1
             /\ Set(s, Done(sendMailInBackground([r EXCEPT !.otp = None],
                                                     Val(r.email)),
                         RequestOTPReply(TRUE)))
     /\ UNCHANGED <<now, nextTok>>

\* the data of the update, were the expiry of the earlier code kept
RequestOTPUpdateDataKeepsExpiry(otp, otpExpires) == [otp |-> otp]

\* data: { otp, otpExpires }
RequestOTPUpdateData(otp, otpExpires) ==
  [otp |-> otp, otpExpires |-> otpExpires]

\* await prisma.user.update({ where: { email }, data: { otp, otpExpires } })
RequestOTPUpdate(s) ==
  LET r == reqs[s]
      user == FindByEmail(Val(r.email))
  IN /\ r.kind = "requestOTP" /\ r.pc = "update"
     /\ IF user = None
        THEN /\ Set(s, Done([r EXCEPT !.otp = None], ServerError))
             /\ UNCHANGED users
        ELSE /\ users' = UpdateRow(Val(user),
                                   RequestOTPUpdateData(r.otp, r.expires))
             /\ Set(s, Done(sendMailInBackground([r EXCEPT !.otp = None],
                                                     Val(r.email)),
                         RequestOTPReply(FALSE)))
     /\ UNCHANGED <<now, nextId, nextTok>>

----------------------------------------------------------------------------
(* verifyOTP: POST /auth/verify-otp *)

InvalidOrExpiredOtp == Message(400, "Invalid or expired OTP")

\* the check, were the expiry not compared with the clock
OtpRejectedNoExpiry(user, otp) ==
  \/ user = None
  \/ Val(user).otp # otp
  \/ Val(user).otpExpires = None

\* !user || user.otp !== otp || !user.otpExpires || user.otpExpires < new Date()
OtpRejected(user, otp) ==
  \/ user = None
  \/ Val(user).otp # otp
  \/ Val(user).otpExpires = None
  \/ Val(Val(user).otpExpires) < now

\* the data of the update, were the code left in place
VerifyOTPDataKeepsCode == [isVerified |-> TRUE]

\* the data of the update, were only the code cleared
VerifyOTPDataKeepsExpiry == [otp |-> None, isVerified |-> TRUE]

\* data: { otp: null, otpExpires: null, isVerified: true }
VerifyOTPData == [otp |-> None, otpExpires |-> None, isVerified |-> TRUE]

\* await prisma.user.findUnique({ where: { email } }) and the check
VerifyOTPFind(s, email, otp) ==
  LET r == Req("verifyOTP", [email |-> Some(email), otp |-> otp])
      user == FindByEmail(email)
  IN /\ Free(s)
     /\ IF OtpRejected(user, otp)
        THEN Set(s, Done(r, InvalidOrExpiredOtp))
        ELSE Set(s, At(r, "update", [snap |-> user]))
     /\ UNCHANGED <<users, now, nextId, nextTok>>

\* await prisma.user.update({ where: { email },
\*                            data: { otp: null, otpExpires: null, isVerified: true } })
VerifyOTPUpdate(s) ==
  LET r == reqs[s]
      user == FindByEmail(Val(r.email))
      updatedUser == Override(Val(user), VerifyOTPData)
  IN /\ r.kind = "verifyOTP" /\ r.pc = "update"
     /\ IF user = None
        THEN /\ Set(s, Done(r, ServerError))
             /\ UNCHANGED users
        ELSE /\ users' = (users \ {Val(user)}) \cup {updatedUser}
             /\ Set(s, Done(r, LoginSuccessful(updatedUser)))
     /\ UNCHANGED <<now, nextId, nextTok>>

----------------------------------------------------------------------------
(* forgotPassword: POST /auth/forgot-password *)

EmailIsRequired == Message(400, "Email is required")
ResetLinkSent ==
  Message(200, "If an account exists with this email, a password reset link has been sent.")

\* the reply for an email nobody has, were it to say so
ForgotPasswordNoAccountTells == Message(404, "User not found")

\* if (!user) return res.status(200).json({ message: "If an account ..." })
ForgotPasswordNoAccount == ResetLinkSent

\* await prisma.user.findUnique({ where: { email } }); for a registered email
\* the token and its expiry are made before the update is awaited
ForgotPasswordFind(s, email) ==
  LET r == Req("forgotPassword", [email |-> email])
      user == FindByEmail(Val(email))
  IN /\ Free(s)
     /\ IF email = None
        THEN Set(s, Done(r, EmailIsRequired)) /\ UNCHANGED nextTok
        ELSE IF user = None
        THEN Set(s, Done(r, ForgotPasswordNoAccount)) /\ UNCHANGED nextTok
        ELSE /\ nextTok <= MaxTokens
             /\ Set(s, At(r, "update", [snap |-> user, token |-> Some(nextTok),
                                        expires |-> Some(now + RESET_TTL)]))
             /\ nextTok' = nextTok + 1
     /\ UNCHANGED <<users, now, nextId>>

\* the data of the update, were the old password dropped with the request
ForgotPasswordDataDropsPassword(resetPasswordToken, resetPasswordExpires) ==
  [resetPasswordToken |-> resetPasswordToken,
   resetPasswordExpires |-> resetPasswordExpires,
   password |-> None]

\* the data of the update, were only the expiry renewed
ForgotPasswordDataExpiryOnly(resetPasswordToken, resetPasswordExpires) ==
  [resetPasswordExpires |-> resetPasswordExpires]

\* data: { resetPasswordToken, resetPasswordExpires }
ForgotPasswordData(resetPasswordToken, resetPasswordExpires) ==
  [resetPasswordToken |-> resetPasswordToken,
   resetPasswordExpires |-> resetPasswordExpires]

\* await prisma.user.update({ where: { id: user.id }, data }), the mail and
\* the reply
ForgotPasswordUpdate(s) ==
  LET r == reqs[s]
      user == FindById(Val(r.snap).id)
  IN /\ r.kind = "forgotPassword" /\ r.pc = "update"
     /\ IF user = None
        THEN /\ Set(s, Done([r EXCEPT !.token = None], ServerError))
             /\ UNCHANGED users
        ELSE /\ users' = UpdateRow(Val(user),
                                   ForgotPasswordData(r.token, r.expires))
             /\ Set(s, Done(sendMailInBackground([r EXCEPT !.token = None],
                                                     Val(r.email)),
                         ResetLinkSent))
     /\ UNCHANGED <<now, nextId, nextTok>>

----------------------------------------------------------------------------
(* verifyResetToken: GET /auth/verify-reset-token?token= *)

InvalidResetToken == Message(400, "Invalid reset token")
InvalidOrExpiredResetToken == Message(400, "Invalid or expired reset token")
TokenIsValid(u) ==
  Response(200, "Token is valid", None, Some([name |-> u.name, email |-> u.email]))

\* the filter, were a token still taken at the instant of its expiry
ResetTokenMatchesAtExpiry(u, token) ==
  /\ u.resetPasswordToken = token
  /\ u.resetPasswordExpires # None
  /\ Val(u.resetPasswordExpires) >= now

\* where: { resetPasswordToken: token, resetPasswordExpires: { gt: new Date() } }
ResetTokenMatches(u, token) ==
  /\ u.resetPasswordToken = token
  /\ u.resetPasswordExpires # None
  /\ Val(u.resetPasswordExpires) > now

FindByResetToken(token) ==
  IF \E u \in users : ResetTokenMatches(u, token)
  THEN Some(CHOOSE u \in users : ResetTokenMatches(u, token))
  ELSE None

\* the handler, were a token it finds valid used up by the look
VerifyResetTokenConsumes(s, token) ==
  LET r == Req("verifyResetToken", [token |-> token])
      user == FindByResetToken(token)
  IN /\ Free(s)
     /\ IF token = None
        THEN Set(s, Done(r, InvalidResetToken)) /\ UNCHANGED users
        ELSE IF user = None
        THEN Set(s, Done(r, InvalidOrExpiredResetToken)) /\ UNCHANGED users
        ELSE /\ Set(s, Done(r, TokenIsValid(Val(user))))
             /\ users' = UpdateRow(Val(user), [resetPasswordToken |-> None,
                                               resetPasswordExpires |-> None])
     /\ UNCHANGED <<now, nextId, nextTok>>

\* the token check and await prisma.user.findFirst({ where, select })
VerifyResetToken(s, token) ==
  LET r == Req("verifyResetToken", [token |-> token])
      user == FindByResetToken(token)
  IN /\ Free(s)
     /\ IF token = None
        THEN Set(s, Done(r, InvalidResetToken))
        ELSE IF user = None
        THEN Set(s, Done(r, InvalidOrExpiredResetToken))
        ELSE Set(s, Done(r, TokenIsValid(Val(user))))
     /\ UNCHANGED <<users, now, nextId, nextTok>>

----------------------------------------------------------------------------
(* resetPassword: POST /auth/reset-password *)

TokenAndPasswordRequired == Message(400, "Token and password are required")
PasswordTooShort == Message(400, "Password must be at least 8 characters long")
PasswordSet(u) ==
  Response(200, "Password has been set successfully",
           Some(generateToken(u.id)), Some(PublicUser(u)))

\* the data of the update, were the new password not written
ResetPasswordDataKeepsPassword(password) ==
  [resetPasswordToken |-> None, resetPasswordExpires |-> None,
   isVerified |-> TRUE]

\* data: { password: hashedPassword, resetPasswordToken: null,
\*         resetPasswordExpires: null, isVerified: true }
ResetPasswordData(password) ==
  [password |-> Some(BcryptHash(password)),
   resetPasswordToken |-> None, resetPasswordExpires |-> None,
   isVerified |-> TRUE]

\* the input checks and await prisma.user.findFirst({ where })
ResetPasswordFind(s, token, password) ==
  LET r == Req("resetPassword", [token |-> token, password |-> password])
      user == FindByResetToken(token)
  IN /\ Free(s)
     /\ IF token = None \/ password = None
        THEN Set(s, Done(r, TokenAndPasswordRequired))
        ELSE IF Len(Val(password)) < MIN_PASSWORD_LENGTH
        THEN Set(s, Done(r, PasswordTooShort))
        ELSE IF user = None
        THEN Set(s, Done(r, InvalidOrExpiredResetToken))
        ELSE Set(s, At(r, "update", [snap |-> user]))
     /\ UNCHANGED <<users, now, nextId, nextTok>>

\* await bcrypt.hash(password, 12), then
\* await prisma.user.update({ where: { id }, data: { password,
\*     resetPasswordToken: null, resetPasswordExpires: null, isVerified: true } })
ResetPasswordUpdate(s) ==
  LET r == reqs[s]
      user == FindById(Val(r.snap).id)
      updatedUser == Override(Val(user), ResetPasswordData(Val(r.password)))
  IN /\ r.kind = "resetPassword" /\ r.pc = "update"
     /\ IF user = None
        THEN /\ Set(s, Done(r, ServerError))
             /\ UNCHANGED users
        ELSE /\ users' = (users \ {Val(user)}) \cup {updatedUser}
             /\ Set(s, Done(r, PasswordSet(updatedUser)))
     /\ UNCHANGED <<now, nextId, nextTok>>

----------------------------------------------------------------------------
(* authenticate and isAdmin: the middlewares in front of the admin routes *)

NoTokenProvided == Message(401, "No token provided")
InvalidOrExpiredToken == Message(401, "Invalid or expired token")
UserNotFound == Message(401, "User not found")
AccessDenied == Message(403, "Access denied. Admin privileges required.")

\* The Authorization header "<scheme> <token>"; a request without the header
\* carries None.
Authorization(scheme, token) == Some([scheme |-> scheme, token |-> token])
Bearer(token) == Authorization("Bearer", token)

\* jwt.verify, were it to ignore the expiry
JwtVerifyIgnoresExpiry(token) == token.key = JWT_SECRET

\* jwt.verify(token, secret): the token was signed with the secret and its
\* day has not passed; anything else makes verify throw.
JwtVerify(token) ==
  /\ token.key = JWT_SECRET
  /\ now < token.iat + JWT_TTL

\* authenticate, were it to trust the id in the token without the lookup
authenticateWithoutLookup(authHeader) ==
  IF authHeader = None \/ Val(authHeader).scheme # "Bearer"
  THEN [ok |-> FALSE, resp |-> NoTokenProvided]
  ELSE IF ~JwtVerify(Val(authHeader).token)
  THEN [ok |-> FALSE, resp |-> InvalidOrExpiredToken]
  ELSE [ok |-> TRUE,
        principal |-> [id |-> Val(authHeader).token.id, email |-> None,
                       role |-> "admin", name |-> None]]

\* What authenticate does with the Authorization header: the response that
\* ends the request, or the principal it attaches as req.user.
authenticate(authHeader) ==
  IF authHeader = None \/ Val(authHeader).scheme # "Bearer"
  THEN [ok |-> FALSE, resp |-> NoTokenProvided]
  ELSE IF ~JwtVerify(Val(authHeader).token)
  THEN [ok |-> FALSE, resp |-> InvalidOrExpiredToken]
  ELSE LET user == FindById(Val(authHeader).token.id)
       IN IF user = None
          THEN [ok |-> FALSE, resp |-> UserNotFound]
          ELSE [ok |-> TRUE,
                principal |-> [id |-> Val(user).id, email |-> Val(user).email,
                               role |-> Val(user).role, name |-> Val(user).name]]

\* isAdmin, were it to let every request through
isAdminAlways(reqUser) == TRUE

\* if (!req.user || req.user.role !== "admin") answers 403; req.user is the
\* principal attached to the request, if any.
isAdmin(reqUser) == reqUser # None /\ Val(reqUser).role = "admin"

\* router.<method>(path, authenticate, isAdmin, handler)
AdminGate(bearer) ==
  LET a == authenticate(bearer)
  IN IF ~a.ok THEN a
     ELSE IF ~isAdmin(Some(a.principal))
     THEN [ok |-> FALSE, resp |-> AccessDenied]
     ELSE a

\* prisma.user.findFirst({ where: { id, role: "admin" } })
FindAdminById(id) ==
  IF \E u \in users : u.id = id /\ u.role = "admin"
  THEN Some(CHOOSE u \in users : u.id = id /\ u.role = "admin")
  ELSE None

----------------------------------------------------------------------------
(* createAdminUser: POST /admin/users *)

NameAndEmailRequired == Message(400, "Name and email are required")
AdminEmailExists == Message(400, "A user with this email already exists")
FailedToCreateAdmin == Message(500, "Failed to create admin user")
AdminCreated(u) ==
  Response(201,
           "Admin user created successfully. An invitation email has been sent.",
           None,
           Some([id |-> u.id, name |-> u.name, email |-> u.email,
                 role |-> u.role, status |-> "Pending"]))

\* await prisma.user.findUnique({ where: { id: decoded.id } }) of
\* authenticate, isAdmin, and the handler up to its own findUnique
CreateAdminUserAuth(s, bearer, name, email) ==
  LET r == Req("createAdminUser", [bearer |-> bearer, name |-> name,
                                   email |-> email])
      g == AdminGate(bearer)
  IN /\ Free(s)
     /\ IF ~g.ok
        THEN Set(s, Done(r, g.resp))
        ELSE IF name = None \/ email = None
        THEN Set(s, Done(r, NameAndEmailRequired))
        ELSE Set(s, At(r, "find", [principal |-> Some(g.principal)]))
     /\ UNCHANGED <<users, now, nextId, nextTok>>

\* await prisma.user.findUnique({ where: { email } }), the early return, and
\* the invitation token with its expiry
CreateAdminUserFind(s) ==
  LET r == reqs[s]
  IN /\ r.kind = "createAdminUser" /\ r.pc = "find"
     /\ IF FindByEmail(Val(r.email)) # None
        THEN Set(s, Done(r, AdminEmailExists)) /\ UNCHANGED nextTok
        ELSE /\ nextTok <= MaxTokens
             /\ Set(s, At(r, "create", [token |-> Some(nextTok),
                                        expires |-> Some(now + INVITE_TTL)]))
             /\ nextTok' = nextTok + 1
     /\ UNCHANGED <<users, now, nextId>>

\* the data of the create, were the invited administrator left unverified
CreateAdminUserDataUnverified(name, email, resetPasswordToken, resetPasswordExpires) ==
  [name |-> name, email |-> email, role |-> "admin",
   resetPasswordToken |-> resetPasswordToken,
   resetPasswordExpires |-> resetPasswordExpires]

\* data: { name, email, role: "admin", isVerified: true,
\*         resetPasswordToken, resetPasswordExpires }
CreateAdminUserData(name, email, resetPasswordToken, resetPasswordExpires) ==
  [name |-> name, email |-> email, role |-> "admin", isVerified |-> TRUE,
   resetPasswordToken |-> resetPasswordToken,
   resetPasswordExpires |-> resetPasswordExpires]

\* await prisma.user.create({ data }); a unique-index violation throws into
\* the catch block.
CreateAdminUserCreate(s) ==
  LET r == reqs[s]
      row == NewRow(nextId, CreateAdminUserData(Val(r.name), Val(r.email),
                                                r.token, r.expires))
  IN /\ r.kind = "createAdminUser" /\ r.pc = "create"
     /\ IF UniqueViolation(row, users)
        THEN /\ Set(s, Done([r EXCEPT !.token = None], FailedToCreateAdmin))
             /\ UNCHANGED <<users, nextId>>
        ELSE /\ nextId <= MaxUsers
             /\ users' = users \cup {row}
             /\ nextId' = nextId + 1
             /\ Set(s, Done(sendMailInBackground([r EXCEPT !.token = None],
                                                     Val(r.email)),
                         AdminCreated(row)))
     /\ UNCHANGED <<now, nextTok>>

----------------------------------------------------------------------------
(* updateAdminUser: PUT /admin/users/:id *)

AdminUserNotFound == Message(404, "Admin user not found")
EmailInUse == Message(400, "Email is already in use")
FailedToUpdateAdmin == Message(500, "Failed to update admin user")
AdminUpdated(u) ==
  Response(200, "Admin user updated successfully", None,
           Some([id |-> u.id, name |-> u.name, email |-> u.email,
                 role |-> u.role, isVerified |-> u.isVerified,
                 status |-> IF u.isVerified THEN "Active" ELSE "Pending"]))

\* authenticate's findUnique, isAdmin, and the handler up to its findFirst
UpdateAdminUserAuth(s, bearer, id, name, email) ==
  LET r == Req("updateAdminUser", [bearer |-> bearer, id |-> Some(id),
                                   name |-> name, email |-> email])
      g == AdminGate(bearer)
  IN /\ Free(s)
     /\ IF ~g.ok
        THEN Set(s, Done(r, g.resp))
        ELSE Set(s, At(r, "find", [principal |-> Some(g.principal)]))
     /\ UNCHANGED <<users, now, nextId, nextTok>>

\* if (email && email !== existingUser.email)
EmailIsChanged(email, existingUser) ==
  email # None /\ Val(email) # existingUser.email

\* await prisma.user.findFirst({ where: { id, role: "admin" } }) and the
\* early return; the address is looked up only when it changes
UpdateAdminUserFind(s) ==
  LET r == reqs[s]
      existingUser == FindAdminById(Val(r.id))
  IN /\ r.kind = "updateAdminUser" /\ r.pc = "find"
     /\ IF existingUser = None
        THEN Set(s, Done(r, AdminUserNotFound))
        ELSE IF EmailIsChanged(r.email, Val(existingUser))
        THEN Set(s, At(r, "taken", <<>>))
        ELSE Set(s, At(r, "update", <<>>))
     /\ UNCHANGED <<users, now, nextId, nextTok>>

\* await prisma.user.findUnique({ where: { email } }) and its early return
UpdateAdminUserTaken(s) ==
  LET r == reqs[s]
  IN /\ r.kind = "updateAdminUser" /\ r.pc = "taken"
     /\ IF FindByEmail(Val(r.email)) # None
        THEN Set(s, Done(r, EmailInUse))
        ELSE Set(s, At(r, "update", <<>>))
     /\ UNCHANGED <<users, now, nextId, nextTok>>

\* data: { ...(name && { name }), ...(email && { email }) }
UpdateAdminUserData(name, email) ==
  (IF name # None THEN [name |-> Val(name)] ELSE <<>>)
  @@ (IF email # None THEN [email |-> Val(email)] ELSE <<>>)

\* await prisma.user.update({ where: { id }, data }); a row that is gone or
\* a unique-index violation makes the update throw into the catch block.
UpdateAdminUserUpdate(s) ==
  LET r == reqs[s]
      user == FindById(Val(r.id))
      updatedUser == Override(Val(user), UpdateAdminUserData(r.name, r.email))
  IN /\ r.kind = "updateAdminUser" /\ r.pc = "update"
     /\ IF user = None \/ UniqueViolation(updatedUser, users \ {Val(user)})
        THEN /\ Set(s, Done(r, FailedToUpdateAdmin))
             /\ UNCHANGED users
        ELSE /\ users' = (users \ {Val(user)}) \cup {updatedUser}
             /\ Set(s, Done(r, AdminUpdated(updatedUser)))
     /\ UNCHANGED <<now, nextId, nextTok>>

----------------------------------------------------------------------------
(* resendInvitation: POST /admin/users/:id/resend-invitation *)

InvitationResent == Message(200, "Invitation email has been resent")
FailedToResend == Message(500, "Failed to resend invitation")

\* authenticate's findUnique, isAdmin, and the handler up to its findFirst
ResendInvitationAuth(s, bearer, id) ==
  LET r == Req("resendInvitation", [bearer |-> bearer, id |-> Some(id)])
      g == AdminGate(bearer)
  IN /\ Free(s)
     /\ IF ~g.ok
        THEN Set(s, Done(r, g.resp))
        ELSE Set(s, At(r, "find", [principal |-> Some(g.principal)]))
     /\ UNCHANGED <<users, now, nextId, nextTok>>

\* await prisma.user.findFirst({ where: { id, role: "admin" } }), the early
\* return, and the new token with its expiry
ResendInvitationFind(s) ==
  LET r == reqs[s]
      user == FindAdminById(Val(r.id))
  IN /\ r.kind = "resendInvitation" /\ r.pc = "find"
     /\ IF user = None
        THEN Set(s, Done(r, AdminUserNotFound)) /\ UNCHANGED nextTok
        ELSE /\ nextTok <= MaxTokens
             /\ Set(s, At(r, "update", [snap |-> user, token |-> Some(nextTok),
                                        expires |-> Some(now + INVITE_TTL)]))
             /\ nextTok' = nextTok + 1
     /\ UNCHANGED <<users, now, nextId>>

\* the data of the update, were the expiry left as it was
ResendInvitationDataTokenOnly(resetPasswordToken, resetPasswordExpires) ==
  [resetPasswordToken |-> resetPasswordToken]

\* data: { resetPasswordToken, resetPasswordExpires }
ResendInvitationData(resetPasswordToken, resetPasswordExpires) ==
  [resetPasswordToken |-> resetPasswordToken,
   resetPasswordExpires |-> resetPasswordExpires]

\* await prisma.user.update({ where: { id }, data }); a row that is gone
\* makes the update throw into the catch block.
ResendInvitationUpdate(s) ==
  LET r == reqs[s]
      user == FindById(Val(r.id))
  IN /\ r.kind = "resendInvitation" /\ r.pc = "update"
     /\ IF user = None
        THEN /\ Set(s, Done([r EXCEPT !.token = None], FailedToResend))
             /\ UNCHANGED users
        ELSE /\ users' = UpdateRow(Val(user),
                                   ResendInvitationData(r.token, r.expires))
             /\ Set(s, Done(sendMailInBackground([r EXCEPT !.token = None],
                                                     Val(r.snap).email),
                         InvitationResent))
     /\ UNCHANGED <<now, nextId, nextTok>>

----------------------------------------------------------------------------
(* deleteAdminUser: DELETE /admin/users/:id *)

CannotDeleteSelf == Message(400, "You cannot delete your own account")
AdminDeleted == Message(200, "Admin user deleted successfully")
FailedToDelete == Message(500, "Failed to delete admin user")

\* authenticate's findUnique, isAdmin, the self check, and the handler up to
\* its findFirst
DeleteAdminUserAuth(s, bearer, id) ==
  LET r == Req("deleteAdminUser", [bearer |-> bearer, id |-> Some(id)])
      g == AdminGate(bearer)
  IN /\ Free(s)
     /\ IF ~g.ok
        THEN Set(s, Done(r, g.resp))
        ELSE IF g.principal.id = id
        THEN Set(s, Done(r, CannotDeleteSelf))
        ELSE Set(s, At(r, "find", [principal |-> Some(g.principal)]))
     /\ UNCHANGED <<users, now, nextId, nextTok>>

\* await prisma.user.findFirst({ where: { id, role: "admin" } })
DeleteAdminUserFind(s) ==
  LET r == reqs[s]
  IN /\ r.kind = "deleteAdminUser" /\ r.pc = "find"
     /\ IF FindAdminById(Val(r.id)) = None
        THEN Set(s, Done(r, AdminUserNotFound))
        ELSE Set(s, At(r, "delete", <<>>))
     /\ UNCHANGED <<users, now, nextId, nextTok>>

\* await prisma.user.delete({ where: { id } }); a row that is gone makes the
\* delete throw into the catch block.
DeleteAdminUserDelete(s) ==
  LET r == reqs[s]
      user == FindById(Val(r.id))
  IN /\ r.kind = "deleteAdminUser" /\ r.pc = "delete"
     /\ IF user = None
        THEN /\ Set(s, Done(r, FailedToDelete))
             /\ UNCHANGED users
        ELSE /\ users' = users \ {Val(user)}
             /\ Set(s, Done(r, AdminDeleted))
     /\ UNCHANGED <<now, nextId, nextTok>>

----------------------------------------------------------------------------
(* updateProfileImage: POST /auth/profile-image, behind authenticate *)

NoImageFile == Message(400, "No image file provided")
ProfileImageUpdated(u) ==
  Response(200, "Profile image updated successfully", None,
           Some(PublicUser(u)))

\* uploadToFirebase(file, "listings"): the URL under which the file is stored
UploadUrl(file) == "listings/" \o file

\* What jwt.sign can have produced so far.
SessionTokens ==
  {[id |-> i, iat |-> 0, key |-> JWT_SECRET] : i \in 1..MaxUsers}

\* An Authorization header a caller can send: none, or a session token that
\* a response on hand carries or that a request on hand was sent with.
Presentable(bearer) ==
  \/ bearer = None
  \/ /\ bearer # None
     /\ \E t \in Slots :
          \/ /\ reqs[t].pc = "done"
             /\ Val(reqs[t].resp).token = Some(Val(bearer).token)
          \/ reqs[t].bearer = bearer

\* authenticate's findUnique, and the handler up to the upload
UpdateProfileImageAuth(s, bearer, file) ==
  LET r == Req("updateProfileImage", [bearer |-> bearer, image |-> file])
      a == authenticate(bearer)
  IN /\ Free(s)
     /\ IF ~a.ok
        THEN Set(s, Done(r, a.resp))
        ELSE IF file = None
        THEN Set(s, Done(r, NoImageFile))
        ELSE Set(s, At(r, "upload", [principal |-> Some(a.principal)]))
     /\ UNCHANGED <<users, now, nextId, nextTok>>

\* await uploadToFirebase(imageFile, "listings"): the upload stores the file,
\* or throws into the catch block
UpdateProfileImageUpload(s, stored) ==
  LET r == reqs[s]
  IN /\ r.kind = "updateProfileImage" /\ r.pc = "upload"
     /\ IF stored
        THEN Set(s, At(r, "update", <<>>))
        ELSE Set(s, Done(r, ServerError))
     /\ UNCHANGED <<users, now, nextId, nextTok>>

\* the data of the update, were the name of the file stored
UpdateProfileImageDataStoresName(imageFile, imageUrl) ==
  [image |-> Some(imageFile)]

\* data: { image: imageUrl }
UpdateProfileImageData(imageFile, imageUrl) == [image |-> Some(imageUrl)]

\* await prisma.user.update({ where: { id: userId }, data: { image: imageUrl } })
UpdateProfileImageUpdate(s) ==
  LET r == reqs[s]
      user == FindById(Val(r.principal).id)
      updatedUser == Override(Val(user),
                              UpdateProfileImageData(Val(r.image),
                                                     UploadUrl(Val(r.image))))
  IN /\ r.kind = "updateProfileImage" /\ r.pc = "update"
     /\ IF user = None
        THEN /\ Set(s, Done(r, ServerError))
             /\ UNCHANGED users
        ELSE /\ users' = (users \ {Val(user)}) \cup {updatedUser}
             /\ Set(s, Done(r, ProfileImageUpdated(updatedUser)))
     /\ UNCHANGED <<now, nextId, nextTok>>

----------------------------------------------------------------------------
(* changePassword: POST /auth/change-password *)

PasswordsRequired == Message(400, "Current and new password are required")
NewPasswordTooShort ==
  Message(400, "New password must be at least 8 characters long")
UserRecordNotFound == Message(404, "User not found")
IncorrectCurrentPassword == Message(400, "Incorrect current password")
PasswordUpdated == Message(200, "Password updated successfully")

\* authenticate's findUnique, and the handler up to its own findUnique
ChangePasswordAuth(s, bearer, currentPassword, newPassword) ==
  LET r == Req("changePassword", [bearer |-> bearer,
                                  password |-> currentPassword,
                                  newPassword |-> newPassword])
      a == authenticate(bearer)
  IN /\ Free(s)
     /\ IF ~a.ok
        THEN Set(s, Done(r, a.resp))
        ELSE IF currentPassword = None \/ newPassword = None
        THEN Set(s, Done(r, PasswordsRequired))
        ELSE IF Len(Val(newPassword)) < MIN_PASSWORD_LENGTH
        THEN Set(s, Done(r, NewPasswordTooShort))
        ELSE Set(s, At(r, "find", [principal |-> Some(a.principal)]))
     /\ UNCHANGED <<users, now, nextId, nextTok>>

\* the reply to a wrong current password, were the comparison skipped
ChangePasswordRejectsNever(user, currentPassword) == FALSE

\* !(await bcrypt.compare(currentPassword, user.password))
ChangePasswordRejects(user, currentPassword) ==
  ~BcryptCompare(currentPassword, Val(user.password))

\* await prisma.user.findUnique({ where: { id: userId } }), the early
\* return, bcrypt.compare against the row read, and bcrypt.hash
ChangePasswordFind(s) ==
  LET r == reqs[s]
      user == FindById(Val(r.principal).id)
  IN /\ r.kind = "changePassword" /\ r.pc = "find"
     /\ IF user = None \/ Val(user).password = None
        THEN Set(s, Done(r, UserRecordNotFound))
        ELSE IF ChangePasswordRejects(Val(user), Val(r.password))
        THEN Set(s, Done(r, IncorrectCurrentPassword))
        ELSE Set(s, At(r, "update", <<>>))
     /\ UNCHANGED <<users, now, nextId, nextTok>>

\* data: { password: hashedPassword }
ChangePasswordData(newPassword) ==
  [password |-> Some(BcryptHash(newPassword))]

\* await prisma.user.update({ where: { id: userId }, data }); a row that is
\* gone makes the update throw into the catch block.
ChangePasswordUpdate(s) ==
  LET r == reqs[s]
      user == FindById(Val(r.principal).id)
  IN /\ r.kind = "changePassword" /\ r.pc = "update"
     /\ IF user = None
        THEN /\ Set(s, Done(r, ServerError))
             /\ UNCHANGED users
        ELSE /\ users' = UpdateRow(Val(user),
                                   ChangePasswordData(Val(r.newPassword)))
             /\ Set(s, Done(r, PasswordUpdated))
     /\ UNCHANGED <<now, nextId, nextTok>>

----------------------------------------------------------------------------
(* The rating controller: POST /ratings and DELETE /ratings/:id, both behind
   authenticate. A request body value is a sequence of characters. *)

ListingAndValueRequired == Message(400, "listingId and value are required")
RatingValueOutOfRange == Message(400, "Rating value must be between 1 and 5")
FailedToSaveRating == Message(500, "Failed to save rating")
RatingNotFound == Message(404, "Rating not found")
RatingForbidden == Message(403, "Unauthorized")
RatingDeleted == Message(200, "Rating deleted successfully")
FailedToDeleteRating == Message(500, "Failed to delete rating")

RatingSaved(rating, avgRating, reviewCount) ==
  [status |-> 200, message |-> "Rating saved successfully", token |-> None,
   user |-> None, rating |-> rating, avgRating |-> avgRating,
   reviewCount |-> reviewCount]

\* the value of a decimal digit, none for any other character
DigitValue(c) ==
  CASE c = "0" -> Some(0) [] c = "1" -> Some(1) [] c = "2" -> Some(2)
    [] c = "3" -> Some(3) [] c = "4" -> Some(4) [] c = "5" -> Some(5)
    [] c = "6" -> Some(6) [] c = "7" -> Some(7) [] c = "8" -> Some(8)
    [] c = "9" -> Some(9) [] OTHER -> None

\* parseInt(value): the number the leading digits spell, NaN (none) when
\* the text does not start with a digit
RECURSIVE ParseDigits(_, _)
ParseDigits(chars, acc) ==
  IF chars = <<>> \/ DigitValue(Head(chars)) = None
  THEN acc
  ELSE ParseDigits(Tail(chars), acc * 10 + Val(DigitValue(Head(chars))))

ParseInt(chars) ==
  IF chars = <<>> \/ DigitValue(Head(chars)) = None
  THEN None
  ELSE Some(ParseDigits(chars, 0))

\* isNaN(ratingValue) || ratingValue < 1 || ratingValue > 5
RatingValueRejected(ratingValue) ==
  ratingValue = None \/ Val(ratingValue) < 1 \/ Val(ratingValue) > 5

\* authenticate, then the checks on the body up to the upsert
UpsertRatingAuth(s, bearer, listingId, value) ==
  LET r == Req("upsertRating", [bearer |-> bearer, listingId |-> listingId,
                                value |-> value, ratingValue |-> None])
      a == authenticate(bearer)
  IN /\ Free(s)
     /\ IF ~a.ok
        THEN Put(s, Done(r, a.resp))
        ELSE IF listingId = None \/ value = None
        THEN Put(s, Done(r, ListingAndValueRequired))
        ELSE IF RatingValueRejected(ParseInt(Val(value)))
        THEN Put(s, Done(r, RatingValueOutOfRange))
        ELSE Put(s, At(r, "upsert", [principal |-> Some(a.principal),
                                     ratingValue |-> ParseInt(Val(value))]))
     /\ UNCHANGED <<users, now, nextId, nextTok, ratings, listings, nextRating>>

\* the row of a user for a listing: ratings_userId_listingId_key
FindRating(userId, listingId) ==
  IF \E x \in ratings : x.userId = userId /\ x.listingId = listingId
  THEN Some(CHOOSE x \in ratings : x.userId = userId /\ x.listingId = listingId)
  ELSE None

\* ratings_userId_fkey and ratings_listingId_fkey
RatingKeysExist(userId, listingId) ==
  /\ \E u \in users : u.id = userId
  /\ \E l \in listings : l.id = listingId

\* await prisma.rating.upsert({ where: { userId_listingId }, update, create })
UpsertRatingUpsert(s) ==
  LET r == reqs[s]
      userId == Val(r.principal).id
      listingId == Val(r.listingId)
      existing == FindRating(userId, listingId)
      created == [id |-> nextRating, userId |-> userId,
                  listingId |-> listingId, value |-> Val(r.ratingValue)]
      updated == [Val(existing) EXCEPT !.value = Val(r.ratingValue)]
  IN /\ r.kind = "upsertRating" /\ r.pc = "upsert"
     /\ IF existing # None
        THEN /\ ratings' = (ratings \ {Val(existing)}) \cup {updated}
             /\ Put(s, At(r, "findMany", [snap |-> Some(updated)]))
             /\ UNCHANGED nextRating
        ELSE IF ~RatingKeysExist(userId, listingId)
        THEN /\ Put(s, Done(r, FailedToSaveRating))
             /\ UNCHANGED <<ratings, nextRating>>
        ELSE /\ nextRating <= MaxRatings
             /\ ratings' = ratings \cup {created}
             /\ nextRating' = nextRating + 1
             /\ Put(s, At(r, "findMany", [snap |-> Some(created)]))
     /\ UNCHANGED <<users, now, nextId, nextTok, listings>>

\* await prisma.rating.findMany({ where: { listingId }, select: { value } })
AllRatings(listingId) == {x \in ratings : x.listingId = listingId}

\* allRatings.reduce((acc, curr) => acc + curr.value, 0)
RECURSIVE TotalRating(_)
TotalRating(allRatings) ==
  IF allRatings = {}
  THEN 0
  ELSE LET x == CHOOSE y \in allRatings : TRUE
       IN x.value + TotalRating(allRatings \ {x})

\* reviewCount > 0 ? totalRating / reviewCount : 0, as the fraction
AvgRating(allRatings) ==
  IF Cardinality(allRatings) > 0
  THEN <<TotalRating(allRatings), Cardinality(allRatings)>>
  ELSE <<0, 1>>

\* const allRatings = await prisma.rating.findMany(...): what was read
\* stays in the handler's locals
UpsertRatingFindMany(s) ==
  LET r == reqs[s]
  IN /\ r.kind = "upsertRating" /\ r.pc = "findMany"
     /\ Put(s, At(r, "aggregate",
                  [allRatings |-> AllRatings(Val(r.listingId))]))
     /\ UNCHANGED <<users, now, nextId, nextTok, ratings, listings, nextRating>>

\* data: { rating: avgRating, reviewCount: reviewCount }
ListingAggregateData(allRatings, listingId) ==
  [rating |-> AvgRating(allRatings), reviewCount |-> Cardinality(allRatings)]

\* prisma.listing.update({ where: { id: listingId }, data })
UpdateListing(listingId, data) ==
  {IF l.id = listingId THEN Override(l, data) ELSE l : l \in listings}

\* await prisma.listing.update(...) and the reply
UpsertRatingUpdateListing(s) ==
  LET r == reqs[s]
      data == ListingAggregateData(r.allRatings, Val(r.listingId))
  IN /\ r.kind = "upsertRating" /\ r.pc = "aggregate"
     /\ IF \E l \in listings : l.id = Val(r.listingId)
        THEN /\ listings' = UpdateListing(Val(r.listingId), data)
             /\ Put(s, Done([r EXCEPT !.allRatings = {}],
                            RatingSaved(r.snap, data.rating, data.reviewCount)))
        ELSE /\ Put(s, Done([r EXCEPT !.allRatings = {}], FailedToSaveRating))
             /\ UNCHANGED listings
     /\ UNCHANGED <<users, now, nextId, nextTok, ratings, nextRating>>

\* authenticate; the handler then awaits its findUnique
DeleteRatingAuth(s, bearer, id) ==
  LET r == Req("deleteRating", [bearer |-> bearer, id |-> Some(id),
                                listingId |-> None])
      a == authenticate(bearer)
  IN /\ Free(s)
     /\ IF ~a.ok
        THEN Put(s, Done(r, a.resp))
        ELSE Put(s, At(r, "find", [principal |-> Some(a.principal)]))
     /\ UNCHANGED <<users, now, nextId, nextTok, ratings, listings, nextRating>>

FindRatingById(id) ==
  IF \E x \in ratings : x.id = id
  THEN Some(CHOOSE x \in ratings : x.id = id)
  ELSE None

\* rating.userId !== userId && req.user?.role !== "admin"
DeleteRatingForbidden(rating, reqUser) ==
  rating.userId # reqUser.id /\ reqUser.role # "admin"

\* await prisma.rating.findUnique({ where: { id } }) and the two checks
DeleteRatingFind(s) ==
  LET r == reqs[s]
      rating == FindRatingById(Val(r.id))
  IN /\ r.kind = "deleteRating" /\ r.pc = "find"
     /\ IF rating = None
        THEN Put(s, Done(r, RatingNotFound))
        ELSE IF DeleteRatingForbidden(Val(rating), Val(r.principal))
        THEN Put(s, Done(r, RatingForbidden))
        ELSE Put(s, At(r, "delete", [listingId |-> Some(Val(rating).listingId)]))
     /\ UNCHANGED <<users, now, nextId, nextTok, ratings, listings, nextRating>>

\* await prisma.rating.delete({ where: { id } }); a row that is gone makes
\* the delete throw into the catch block
DeleteRatingDelete(s) ==
  LET r == reqs[s]
      rating == FindRatingById(Val(r.id))
  IN /\ r.kind = "deleteRating" /\ r.pc = "delete"
     /\ IF rating = None
        THEN /\ Put(s, Done(r, FailedToDeleteRating))
             /\ UNCHANGED ratings
        ELSE /\ ratings' = ratings \ {Val(rating)}
             /\ Put(s, At(r, "findMany", <<>>))
     /\ UNCHANGED <<users, now, nextId, nextTok, listings, nextRating>>

\* const allRatings = await prisma.rating.findMany(...)
DeleteRatingFindMany(s) ==
  LET r == reqs[s]
  IN /\ r.kind = "deleteRating" /\ r.pc = "findMany"
     /\ Put(s, At(r, "aggregate",
                  [allRatings |-> AllRatings(Val(r.listingId))]))
     /\ UNCHANGED <<users, now, nextId, nextTok, ratings, listings, nextRating>>

\* await prisma.listing.update(...) and the reply
DeleteRatingUpdateListing(s) ==
  LET r == reqs[s]
      data == ListingAggregateData(r.allRatings, Val(r.listingId))
  IN /\ r.kind = "deleteRating" /\ r.pc = "aggregate"
     /\ IF \E l \in listings : l.id = Val(r.listingId)
        THEN /\ listings' = UpdateListing(Val(r.listingId), data)
             /\ Put(s, Done([r EXCEPT !.allRatings = {}], RatingDeleted))
        ELSE /\ Put(s, Done([r EXCEPT !.allRatings = {}], FailedToDeleteRating))
             /\ UNCHANGED listings
     /\ UNCHANGED <<users, now, nextId, nextTok, ratings, nextRating>>

----------------------------------------------------------------------------
(* The clock *)

\* Time passes, d minutes at a time, n times at most.
Advance(d, n) ==
  /\ now + d <= n * d
  /\ now' = now + d
  /\ UNCHANGED <<users, reqs, nextId, nextTok, ratings, listings, nextRating>>

Tick(d) == Advance(d, MaxTicks)

----------------------------------------------------------------------------

(* Inputs *)

Opt(S) == {None} \cup {Some(v) : v \in S}

EmailA == <<"a", "x.com">>
EmailB == <<"b", "x.com">>
LongPasswords == {pw \in Passwords : Len(pw) >= MIN_PASSWORD_LENGTH}

\* POST /auth/google bodies: the direct profile fields, an ID token Google
\* vouches for, one it rejects, or nothing.
NoGoogleBody ==
  [credential |-> None, email |-> None, name |-> None, googleId |-> None,
   image |-> None]
GoogleBodies(emails, subs) ==
  {Override(NoGoogleBody, [email |-> Some(e), googleId |-> Some(g),
                           image |-> Some("g.png")]) :
     e \in emails, g \in subs}
  \cup
  {Override(NoGoogleBody,
     [credential |-> Some([valid |-> TRUE,
        payload |-> Some([email |-> e, name |-> Some("G"), sub |-> g,
                          picture |-> None])])]) : e \in emails, g \in subs}
  \cup
  {Override(NoGoogleBody, [credential |-> Some([valid |-> FALSE, payload |-> None])]),
   Override(NoGoogleBody, [credential |-> Some([valid |-> TRUE, payload |-> None])]),
   NoGoogleBody}

----------------------------------------------------------------------------
(* Specifications *)

\* Signup, email verification and password login, two addresses.
NextSignup ==
  \/ \E s \in Slots, e \in Emails, p \in LongPasswords :
       SignupFind(s, "n", e, p)
  \/ \E s \in Slots : SignupCreate(s)
  \/ \E s \in Slots, t \in Opt(TokenIds) : VerifyEmailFind(s, t)
  \/ \E s \in Slots : VerifyEmailUpdate(s)
  \/ \E s \in Slots, e \in Emails, p \in LongPasswords : LoginFind(s, e, p)
  \/ \E s \in Slots : LoginCompare(s)

SpecSignup == Init /\ [][NextSignup]_vars

\* One-time passcodes against the clock.
NextOtp ==
  \/ \E s \in Slots, c \in Codes : RequestOTPFind(s, EmailA, c)
  \/ \E s \in Slots : RequestOTPCreate(s)
  \/ \E s \in Slots : RequestOTPUpdate(s)
  \/ \E s \in Slots, e \in Emails, c \in Opt(Codes) : VerifyOTPFind(s, e, c)
  \/ \E s \in Slots : VerifyOTPUpdate(s)
  \/ Tick(OTP_TTL \div 2)

SpecOtp == Init /\ [][NextOtp]_vars

\* Password reset against the clock, for an account made by signup.
NextReset ==
  \/ \E s \in Slots : SignupFind(s, "n", EmailA, "password1")
  \/ \E s \in Slots : SignupCreate(s)
  \/ \E s \in Slots, e \in Opt(Emails) : ForgotPasswordFind(s, e)
  \/ \E s \in Slots : ForgotPasswordUpdate(s)
  \/ \E s \in Slots, t \in Opt(TokenIds) : VerifyResetToken(s, t)
  \/ \E s \in Slots, t \in Opt(TokenIds), p \in Opt({"password2", "short"}) :
       ResetPasswordFind(s, t, p)
  \/ \E s \in Slots : ResetPasswordUpdate(s)
  \/ Tick(RESET_TTL \div 2)

SpecReset == Init /\ [][NextReset]_vars

\* Every flow that creates a user or writes a credential, one address.
NextAuth ==
  \/ \E s \in Slots : SignupFind(s, "n", EmailA, "password1")
  \/ \E s \in Slots : SignupCreate(s)
  \/ \E s \in Slots, t \in 1..MaxTokens : VerifyEmailFind(s, Some(t))
  \/ \E s \in Slots : VerifyEmailUpdate(s)
  \/ \E s \in Slots, p \in LongPasswords : LoginFind(s, EmailA, p)
  \/ \E s \in Slots : LoginCompare(s)
  \/ \E s \in Slots, b \in GoogleBodies({EmailA}, {"sub1"}) :
       b.email # None /\ GoogleAuthFind(s, b)
  \/ \E s \in Slots : GoogleAuthCreate(s)
  \/ \E s \in Slots : GoogleAuthUpdate(s)
  \/ \E s \in Slots : RequestOTPFind(s, EmailA, "111111")
  \/ \E s \in Slots : RequestOTPCreate(s)
  \/ \E s \in Slots : RequestOTPUpdate(s)
  \/ \E s \in Slots : VerifyOTPFind(s, EmailA, Some("111111"))
  \/ \E s \in Slots : VerifyOTPUpdate(s)
  \/ \E s \in Slots : ForgotPasswordFind(s, Some(EmailA))
  \/ \E s \in Slots : ForgotPasswordUpdate(s)
  \/ \E s \in Slots, t \in 1..MaxTokens :
       ResetPasswordFind(s, Some(t), Some("password2"))
  \/ \E s \in Slots : ResetPasswordUpdate(s)

SpecAuth == Init /\ [][NextAuth]_vars

\* Federated sign-in for an account that signed up with a password and may
\* have uploaded a profile image.
NextLink ==
  \/ \E s \in Slots : SignupFind(s, "n", EmailA, "password1")
  \/ \E s \in Slots : SignupCreate(s)
  \/ \E s \in Slots, t \in 1..MaxTokens : VerifyEmailFind(s, Some(t))
  \/ \E s \in Slots : VerifyEmailUpdate(s)
  \/ \E s \in Slots : LoginFind(s, EmailA, "password1")
  \/ \E s \in Slots : LoginCompare(s)
  \/ \E s \in Slots, b \in {None} \cup {Bearer(t) : t \in SessionTokens},
          f \in Opt({"f.png"}) :
       Presentable(b) /\ UpdateProfileImageAuth(s, b, f)
  \/ \E s \in Slots, stored \in BOOLEAN : UpdateProfileImageUpload(s, stored)
  \/ \E s \in Slots : UpdateProfileImageUpdate(s)
  \/ \E s \in Slots, b \in GoogleBodies({EmailA}, {"sub1"}) :
       GoogleAuthFind(s, b)
  \/ \E s \in Slots : GoogleAuthCreate(s)
  \/ \E s \in Slots : GoogleAuthUpdate(s)

SpecLink == Init /\ [][NextLink]_vars

\* The first administrator is put into the table out of band: no route
\* makes an admin without an admin calling it.
SeedAdmin ==
  NewRow(0, [name |-> "root", email |-> <<"root", "x.com">>,
             role |-> "admin", isVerified |-> TRUE,
             password |-> Some(BcryptHash("password1"))])

\* The session token of a login of that administrator at the start.
SeedBearer == Bearer([id |-> 0, iat |-> 0, key |-> JWT_SECRET])

InitAdmin ==
  /\ users = {SeedAdmin}
  /\ reqs = [s \in Slots |-> Idle]
  /\ now = 0
  /\ nextId = 1
  /\ nextTok = 1
  /\ NoRatings

\* Invitations, resets and deletions of administrators, one address.
NextAdmin ==
  \/ \E s \in Slots, b \in {None, SeedBearer}, n \in Opt({"n"}) :
       CreateAdminUserAuth(s, b, n, Some(EmailA))
  \/ \E s \in Slots : CreateAdminUserFind(s)
  \/ \E s \in Slots : CreateAdminUserCreate(s)
  \/ \E s \in Slots, i \in 1..MaxUsers : ResendInvitationAuth(s, SeedBearer, i)
  \/ \E s \in Slots : ResendInvitationFind(s)
  \/ \E s \in Slots : ResendInvitationUpdate(s)
  \/ \E s \in Slots, i \in 0..MaxUsers : DeleteAdminUserAuth(s, SeedBearer, i)
  \/ \E s \in Slots : DeleteAdminUserFind(s)
  \/ \E s \in Slots : DeleteAdminUserDelete(s)
  \/ \E s \in Slots : ForgotPasswordFind(s, Some(EmailA))
  \/ \E s \in Slots : ForgotPasswordUpdate(s)
  \/ \E s \in Slots, t \in 1..MaxTokens :
       ResetPasswordFind(s, Some(t), Some("password2"))
  \/ \E s \in Slots : ResetPasswordUpdate(s)

SpecAdmin == InitAdmin /\ [][NextAdmin]_vars

\* Every flow that writes an email or a googleId, two addresses and one
\* Google subject.
NextUnique ==
  \/ \E s \in Slots : SignupFind(s, "n", EmailA, "password1")
  \/ \E s \in Slots : SignupCreate(s)
  \/ \E s \in Slots, b \in GoogleBodies(Emails, {"sub1"}) :
       b.email # None /\ GoogleAuthFind(s, b)
  \/ \E s \in Slots : GoogleAuthCreate(s)
  \/ \E s \in Slots : GoogleAuthUpdate(s)
  \/ \E s \in Slots : RequestOTPFind(s, EmailA, "111111")
  \/ \E s \in Slots : RequestOTPCreate(s)
  \/ \E s \in Slots : RequestOTPUpdate(s)
  \/ \E s \in Slots :
       CreateAdminUserAuth(s, SeedBearer, Some("n"), Some(EmailB))
  \/ \E s \in Slots : CreateAdminUserFind(s)
  \/ \E s \in Slots : CreateAdminUserCreate(s)
  \/ \E s \in Slots, i \in 0..MaxUsers :
       UpdateAdminUserAuth(s, SeedBearer, i, None, Some(EmailA))
  \/ \E s \in Slots : UpdateAdminUserFind(s)
  \/ \E s \in Slots : UpdateAdminUserTaken(s)
  \/ \E s \in Slots : UpdateAdminUserUpdate(s)

SpecUnique == InitAdmin /\ [][NextUnique]_vars

\* Every flow that sends mail, one address, with the dispatches settling in
\* the background.
NextMail ==
  \/ \E s \in Slots : SignupFind(s, "n", EmailA, "password1")
  \/ \E s \in Slots : SignupCreate(s)
  \/ \E s \in Slots : RequestOTPFind(s, EmailA, "111111")
  \/ \E s \in Slots : RequestOTPCreate(s)
  \/ \E s \in Slots : RequestOTPUpdate(s)
  \/ \E s \in Slots : ForgotPasswordFind(s, Some(EmailA))
  \/ \E s \in Slots : ForgotPasswordUpdate(s)
  \/ \E s \in Slots :
       CreateAdminUserAuth(s, SeedBearer, Some("n"), Some(EmailA))
  \/ \E s \in Slots : CreateAdminUserFind(s)
  \/ \E s \in Slots : CreateAdminUserCreate(s)
  \/ \E s \in Slots, i \in 1..MaxUsers : ResendInvitationAuth(s, SeedBearer, i)
  \/ \E s \in Slots : ResendInvitationFind(s)
  \/ \E s \in Slots : ResendInvitationUpdate(s)
  \/ \E s \in Slots, delivered \in BOOLEAN : SendMail(s, delivered)

SpecMail == InitAdmin /\ [][NextMail]_vars

\* The Authorization headers a protected route is called with: none, another
\* scheme, a bearer token signed with another key, and the session tokens
\* the callers hold.
SessionClock == {k * (JWT_TTL \div 2) : k \in 0..SessionTicks}
ForgedToken == [id |-> 0, iat |-> 0, key |-> "guess"]
Unsigned == {None, Authorization("Basic", ForgedToken), Bearer(ForgedToken)}
SignedAt(clock) ==
  {Bearer([id |-> i, iat |-> t, key |-> JWT_SECRET]) :
     i \in 0..MaxUsers, t \in clock}
HeadersAt(clock) == Unsigned \cup SignedAt(clock)
Headers == HeadersAt(SessionClock)
Sendable(h) == h \in Unsigned \/ Presentable(h)

\* A second administrator, as createAdminUser followed by resetPassword with
\* the invitation token leaves the row.
SecondAdmin ==
  NewRow(1, [name |-> "n", email |-> EmailA, role |-> "admin",
             isVerified |-> TRUE,
             password |-> Some(BcryptHash("password1"))])

InitSession ==
  /\ users = {SeedAdmin, SecondAdmin}
  /\ reqs = [s \in Slots |-> Idle]
  /\ now = 0
  /\ nextId = 2
  /\ nextTok = 1
  /\ NoRatings

\* Sessions against the clock: two administrators sign in, change their
\* passwords and delete each other.
NextSession ==
  \/ \E s \in Slots, e \in {SeedAdmin.email, SecondAdmin.email} :
       LoginFind(s, e, "password1")
  \/ \E s \in Slots : LoginCompare(s)
  \/ \E s \in Slots, h \in Headers :
       Sendable(h) /\ ChangePasswordAuth(s, h, Some("password1"),
                                           Some("password2"))
  \/ \E s \in Slots : ChangePasswordFind(s)
  \/ \E s \in Slots : ChangePasswordUpdate(s)
  \/ \E s \in Slots, h \in Headers, i \in 0..1 :
       Sendable(h) /\ DeleteAdminUserAuth(s, h, i)
  \/ \E s \in Slots : DeleteAdminUserFind(s)
  \/ \E s \in Slots : DeleteAdminUserDelete(s)
  \/ Advance(JWT_TTL \div 2, SessionTicks)

SpecSession == InitSession /\ [][NextSession]_vars

\* An administrator is invited, may ask for a password reset, sets a
\* password and signs in.
NextInvite ==
  \/ \E s \in Slots, b \in {None, SeedBearer} :
       CreateAdminUserAuth(s, b, Some("n"), Some(EmailA))
  \/ \E s \in Slots : CreateAdminUserFind(s)
  \/ \E s \in Slots : CreateAdminUserCreate(s)
  \/ \E s \in Slots : ForgotPasswordFind(s, Some(EmailA))
  \/ \E s \in Slots : ForgotPasswordUpdate(s)
  \/ \E s \in Slots, t \in 1..MaxTokens :
       ResetPasswordFind(s, Some(t), Some("password2"))
  \/ \E s \in Slots : ResetPasswordUpdate(s)
  \/ \E s \in Slots : LoginFind(s, EmailA, "password2")
  \/ \E s \in Slots : LoginCompare(s)

SpecInvite == InitAdmin /\ [][NextInvite]_vars

\* Federated sign-in under two subject ids for one address, which may have
\* signed up with a password first.
NextSubject ==
  \/ \E s \in Slots : SignupFind(s, "n", EmailA, "password1")
  \/ \E s \in Slots : SignupCreate(s)
  \/ \E s \in Slots, b \in GoogleBodies({EmailA}, {"sub1", "sub2"}) :
       GoogleAuthFind(s, b)
  \/ \E s \in Slots : GoogleAuthCreate(s)
  \/ \E s \in Slots : GoogleAuthUpdate(s)

SpecSubject == Init /\ [][NextSubject]_vars

\* An invited administrator is sent further reset links, and the links are
\* probed and redeemed.
NextReplace ==
  \/ \E s \in Slots : CreateAdminUserAuth(s, SeedBearer, Some("n"), Some(EmailA))
  \/ \E s \in Slots : CreateAdminUserFind(s)
  \/ \E s \in Slots : CreateAdminUserCreate(s)
  \/ \E s \in Slots : ResendInvitationAuth(s, SeedBearer, 1)
  \/ \E s \in Slots : ResendInvitationFind(s)
  \/ \E s \in Slots : ResendInvitationUpdate(s)
  \/ \E s \in Slots : ForgotPasswordFind(s, Some(EmailA))
  \/ \E s \in Slots : ForgotPasswordUpdate(s)
  \/ \E s \in Slots, t \in 1..MaxTokens : VerifyResetToken(s, Some(t))
  \/ \E s \in Slots, t \in 1..MaxTokens :
       ResetPasswordFind(s, Some(t), Some("password2"))
  \/ \E s \in Slots : ResetPasswordUpdate(s)

SpecReplace == InitAdmin /\ [][NextReplace]_vars

\* An administrator and a plain user, both signed in, rate the one listing
\* and delete ratings.
Rater ==
  NewRow(1, [name |-> "n", email |-> EmailA, isVerified |-> TRUE,
             password |-> Some(BcryptHash("password1"))])
RaterBearer == Bearer([id |-> 1, iat |-> 0, key |-> JWT_SECRET])

InitRating ==
  /\ users = {SeedAdmin, Rater}
  /\ reqs = [s \in Slots |-> Idle]
  /\ now = 0
  /\ nextId = 2
  /\ nextTok = 1
  /\ NoRatings

RatingValues == {<<"5">>, <<"x">>}

NextRating ==
  \/ \E s \in Slots, b \in {SeedBearer, RaterBearer}, v \in RatingValues :
       UpsertRatingAuth(s, b, Some(1), Some(v))
  \/ \E s \in Slots : UpsertRatingUpsert(s)
  \/ \E s \in Slots : UpsertRatingFindMany(s)
  \/ \E s \in Slots : UpsertRatingUpdateListing(s)
  \/ \E s \in Slots, b \in {SeedBearer, RaterBearer}, i \in 1..MaxRatings :
       DeleteRatingAuth(s, b, i)
  \/ \E s \in Slots : DeleteRatingFind(s)
  \/ \E s \in Slots : DeleteRatingDelete(s)
  \/ \E s \in Slots : DeleteRatingFindMany(s)
  \/ \E s \in Slots : DeleteRatingUpdateListing(s)

SpecRating == InitRating /\ [][NextRating]_vars

\* Two administrators sign in and change their passwords while either may
\* be deleted.
NextChange ==
  \/ \E s \in Slots, e \in {SeedAdmin.email, SecondAdmin.email},
          p \in LongPasswords : LoginFind(s, e, p)
  \/ \E s \in Slots : LoginCompare(s)
  \/ \E s \in Slots, h \in SignedAt({0}), c \in Opt(LongPasswords),
          n \in Opt({"password2", "short"}) :
       Presentable(h) /\ ChangePasswordAuth(s, h, c, n)
  \/ \E s \in Slots : ChangePasswordFind(s)
  \/ \E s \in Slots : ChangePasswordUpdate(s)
  \/ \E s \in Slots, h \in SignedAt({0}) :
       Presentable(h) /\ DeleteAdminUserAuth(s, h, 1)
  \/ \E s \in Slots : DeleteAdminUserFind(s)
  \/ \E s \in Slots : DeleteAdminUserDelete(s)

SpecChange == InitSession /\ [][NextChange]_vars

\* The admin user routes called by the administrator, by a user who signed
\* in through Google, and by callers without a session.
NextGate ==
  \/ \E s \in Slots : LoginFind(s, SeedAdmin.email, "password1")
  \/ \E s \in Slots : LoginCompare(s)
  \/ \E s \in Slots, b \in GoogleBodies({EmailA}, {"sub1"}) :
       b.email # None /\ GoogleAuthFind(s, b)
  \/ \E s \in Slots : GoogleAuthCreate(s)
  \/ \E s \in Slots : GoogleAuthUpdate(s)
  \/ \E s \in Slots, h \in HeadersAt({0}) :
       Sendable(h) /\ CreateAdminUserAuth(s, h, Some("n"), Some(EmailA))
  \/ \E s \in Slots : CreateAdminUserFind(s)
  \/ \E s \in Slots : CreateAdminUserCreate(s)
  \/ \E s \in Slots, h \in HeadersAt({0}), i \in 1..MaxUsers :
       Sendable(h) /\ UpdateAdminUserAuth(s, h, i, Some("m"), None)
  \/ \E s \in Slots : UpdateAdminUserFind(s)
  \/ \E s \in Slots : UpdateAdminUserUpdate(s)
  \/ \E s \in Slots, h \in HeadersAt({0}), i \in 1..MaxUsers :
       Sendable(h) /\ DeleteAdminUserAuth(s, h, i)
  \/ \E s \in Slots : DeleteAdminUserFind(s)
  \/ \E s \in Slots : DeleteAdminUserDelete(s)

SpecGate == InitAdmin /\ [][NextGate]_vars

----------------------------------------------------------------------------
(* What a step does to a slot *)

\* A request of this kind arrives in slot s in this step.
Starts(s, kind) ==
  Vacant(s) /\ reqs'[s] # reqs[s] /\ reqs'[s].kind = kind

\* The request of this kind in slot s is answered in this step.
Ends(s, kind) ==
  reqs'[s] # reqs[s] /\ reqs'[s].kind = kind /\ reqs'[s].pc = "done"

\* The request of this kind in slot s, suspended at pc, resumes in this step.
Resumes(s, kind, pc) ==
  reqs[s].kind = kind /\ reqs[s].pc = pc /\ reqs'[s] # reqs[s]

Answered(s, kind) == reqs[s].kind = kind /\ reqs[s].pc = "done"
StatusOf(r) == Val(r.resp).status

RowsWithEmail(rows, email) == {u \in rows : u.email = email}

----------------------------------------------------------------------------
(* C1: a password login never answers 200 with a session token for a user
   whose stored isVerified is false, whatever other flows ran or are running. *)
C1_LoginOnlyForVerified ==
  \A s \in Slots :
    (Answered(s, "login")
       /\ (StatusOf(reqs[s]) = 200 \/ Val(reqs[s].resp).token # None))
    => /\ StatusOf(reqs[s]) = 200
       /\ Val(reqs[s].resp).token # None
       /\ \A u \in users :
            u.id = Val(Val(reqs[s].resp).token).id => u.isVerified

\* A login has succeeded for a stored user.
C1_Witness ==
  \E s \in Slots :
    /\ Answered(s, "login") /\ StatusOf(reqs[s]) = 200
    /\ \E u \in users : u.id = Val(Val(reqs[s].resp).token).id /\ u.isVerified

(* C2: once a signup with e has succeeded there is exactly one row with
   email e, that row stays, and every signup with e that arrives later is
   answered 400 "User already exists" and leaves the table as it was. *)
C2_SecondSignupRejected ==
  [][\A s \in Slots :
       /\ (Ends(s, "signup") /\ StatusOf(reqs'[s]) = 201
             => Cardinality(RowsWithEmail(users', Val(reqs'[s].email))) = 1)
       /\ \A u \in users : \E v \in users' : v.id = u.id /\ v.email = u.email
       /\ \A u, v \in users' : u.email = v.email => u = v
       /\ (Starts(s, "signup")
             /\ RowsWithEmail(users, Val(reqs'[s].email)) # {}
             => /\ reqs'[s].resp = Some(UserAlreadyExists)
                /\ users' = users)]_vars

\* A signup was refused for an address that has its one row.
C2_Witness ==
  \E s \in Slots :
    /\ Answered(s, "signup") /\ reqs[s].resp = Some(UserAlreadyExists)
    /\ Cardinality(RowsWithEmail(users, Val(reqs[s].email))) = 1

(* C3: when two signups with the same email have both passed the existence
   check, exactly one row is created and the one that loses the race for the
   unique index is answered 400 "User already exists", not a generic 500. *)
C3_SignupRaceLoserGetsAccountExists ==
  [][\A s \in Slots :
       (Resumes(s, "signup", "create")
          /\ RowsWithEmail(users, Val(reqs[s].email)) # {})
       => /\ users' = users
          /\ reqs'[s].resp = Some(UserAlreadyExists)]_vars

(* C4 as stated: after signup(e, p), login(e, p) does not succeed for as long
   as verify-email has not been run with the token emailed at signup (the
   token is stored until that run consumes it). *)
C4_LoginForbiddenUntilVerifyEmail ==
  \A s \in Slots :
    (Answered(s, "login") /\ StatusOf(reqs[s]) = 200)
    => \A u \in RowsWithEmail(users, Val(reqs[s].email)) :
         u.verificationToken = None

\* The flows whose update marks an account verified.
VerifyingKinds == {"verifyEmail", "verifyOTP", "googleAuth", "resetPassword"}

(* C4 amended: signup stores the account unverified with the hash of p and a
   verification token and issues no session token; login(e, p) is answered
   403 for as long as the stored isVerified is false, and isVerified becomes
   true only by verify-email with that token or by another verifying flow
   (verifyOTP, federated linking, resetPassword); verify-email with the token
   marks the account verified, clears the token and keeps the password, and a
   login with the stored password for a verified account is answered 200
   with a session token for that user. *)
C4_LoginForbiddenWhileUnverified ==
  [][\A s \in Slots :
       /\ (Ends(s, "signup") /\ StatusOf(reqs'[s]) = 201
             => /\ Val(reqs'[s].resp).token = None
                /\ \E u \in users' \ users :
                     /\ u.email = Val(reqs[s].email)
                     /\ u.password = Some(BcryptHash(Val(reqs[s].password)))
                     /\ ~u.isVerified
                     /\ u.verificationToken # None)
       /\ (Starts(s, "login")
             => \A u \in RowsWithEmail(users, Val(reqs'[s].email)) :
                  u.password # None
                  => reqs'[s].pc = "compare" /\ reqs'[s].snap = Some(u))
       /\ (Resumes(s, "login", "compare")
             /\ BcryptCompare(Val(reqs[s].password), Val(Val(reqs[s].snap).password))
             => IF Val(reqs[s].snap).isVerified
                THEN /\ StatusOf(reqs'[s]) = 200
                     /\ Val(reqs'[s].resp).token # None
                     /\ Val(Val(reqs'[s].resp).token).id = Val(reqs[s].snap).id
                ELSE /\ StatusOf(reqs'[s]) = 403
                     /\ Val(reqs'[s].resp).token = None)
       /\ (Starts(s, "verifyEmail") /\ reqs'[s].token # None
             => \A u \in users :
                  u.verificationToken = reqs'[s].token
                  => reqs'[s].pc = "update" /\ reqs'[s].snap = Some(u))
       /\ (Resumes(s, "verifyEmail", "update")
             => /\ StatusOf(reqs'[s]) = 200
                /\ \E u \in users, v \in users' :
                     /\ u.id = Val(reqs[s].snap).id /\ v.id = u.id
                     /\ v.isVerified /\ v.verificationToken = None
                     /\ v.password = u.password)
       /\ \A u \in users, v \in users' :
            (v.id = u.id /\ ~u.isVerified /\ v.isVerified)
            => \E t \in Slots, k \in VerifyingKinds : Resumes(t, k, "update")]_vars

\* signup, then verify-email, then a successful login with the password
\* given at signup.
C4_Witness ==
  \E s \in Slots :
    /\ Answered(s, "login") /\ StatusOf(reqs[s]) = 200
    /\ \E u \in RowsWithEmail(users, Val(reqs[s].email)) :
         /\ u.password = Some(BcryptHash("password1"))
         /\ u.verificationToken = None
         /\ u.googleId = None /\ u.otp = None /\ u.resetPasswordToken = None

(* C5: login answers the same 401 "Invalid email or password", with no token
   and no user, when no user has the email, when the user has no password
   hash, and when the password does not match the hash. *)
C5_InvalidCredentials == Response(401, "Invalid email or password", None, None)

C5_LoginFailuresIdentical ==
  [][\A s \in Slots :
       /\ (Starts(s, "login")
             /\ (\A u \in RowsWithEmail(users, Val(reqs'[s].email)) :
                   u.password = None)
             => reqs'[s].resp = Some(C5_InvalidCredentials))
       /\ (Resumes(s, "login", "compare")
             /\ Val(reqs[s].snap).password
                  # Some(BcryptHash(Val(reqs[s].password)))
             => reqs'[s].resp = Some(C5_InvalidCredentials))]_vars

\* A login with a wrong password for a stored user was refused with that
\* response.
C5_Witness ==
  \E s \in Slots :
    /\ Answered(s, "login") /\ reqs[s].resp = Some(C5_InvalidCredentials)
    /\ \E u \in RowsWithEmail(users, Val(reqs[s].email)) :
         u.password # None /\ u.password # Some(BcryptHash(Val(reqs[s].password)))

(* C6: a login with the correct password for an unverified account
   is answered with the status of a wrong-password attempt against a missing
   account (401), so that the status does not tell that the password was
   right. *)
C6_UnverifiedLooksLikeWrongPassword ==
  [][\A s \in Slots :
       (Resumes(s, "login", "compare")
          /\ BcryptCompare(Val(reqs[s].password), Val(Val(reqs[s].snap).password))
          /\ ~Val(reqs[s].snap).isVerified)
       => StatusOf(reqs'[s]) = 401]_vars

(* C7: verifyOTP with the stored code after otpExpires is answered 400
   "Invalid or expired OTP", issues no token and changes no row; the answer
   is the same for a wrong code, an unknown email and a user without an
   expiry. *)
C7_InvalidOrExpiredOtp == Response(400, "Invalid or expired OTP", None, None)

C7_ExpiredOtpRejected ==
  [][\A s \in Slots :
       Starts(s, "verifyOTP")
       => LET rows == RowsWithEmail(users, Val(reqs'[s].email))
          IN (\/ rows = {}
              \/ \E u \in rows :
                   \/ u.otp # reqs'[s].otp
                   \/ u.otpExpires = None
                   \/ (u.otp = reqs'[s].otp /\ Val(u.otpExpires) < now))
             => /\ reqs'[s].resp = Some(C7_InvalidOrExpiredOtp)
                /\ users' = users]_vars

\* The stored code was submitted after its expiry and refused.
C7_Witness ==
  \E s \in Slots :
    /\ Answered(s, "verifyOTP") /\ reqs[s].resp = Some(C7_InvalidOrExpiredOtp)
    /\ \E u \in RowsWithEmail(users, Val(reqs[s].email)) :
         u.otp = reqs[s].otp /\ u.otp # None /\ Val(u.otpExpires) < now

(* C8: a successful verifyOTP leaves the user without otp and otpExpires and
   with isVerified true; while no code is stored every verifyOTP that arrives
   is answered 400 "Invalid or expired OTP", and only the write of a
   requestOTP stores a code again. *)
C8_OtpClearedOnSuccess ==
  [][\A s \in Slots :
       /\ (Ends(s, "verifyOTP") /\ StatusOf(reqs'[s]) = 200
             => \E u \in RowsWithEmail(users', Val(reqs[s].email)) :
                  /\ u.otp = None /\ u.otpExpires = None /\ u.isVerified
                  /\ Val(Val(reqs'[s].resp).token).id = u.id)
       /\ (Starts(s, "verifyOTP")
             /\ (\A u \in RowsWithEmail(users, Val(reqs'[s].email)) :
                   u.otp = None)
             => reqs'[s].resp = Some(C7_InvalidOrExpiredOtp))
       /\ \A u \in users, v \in users' :
            (v.id = u.id /\ u.otp = None /\ v.otp # None)
            => \E t \in Slots : Resumes(t, "requestOTP", "update")]_vars

\* After a successful verifyOTP the same code was submitted again and refused.
C8_Witness ==
  \E s \in Slots :
    /\ Answered(s, "verifyOTP") /\ StatusOf(reqs[s]) = 400
    /\ reqs[s].otp # None
    /\ \E u \in RowsWithEmail(users, Val(reqs[s].email)) :
         u.isVerified /\ u.otp = None /\ u.otpExpires = None

(* C9: an OTP code is single-use: a verifyOTP succeeds only by consuming a
   code that is still stored, so that of two verifyOTP requests carrying the
   code of one requestOTP, processed concurrently, at most one succeeds. *)
C9_OtpSingleUse ==
  [][\A s \in Slots :
       (Resumes(s, "verifyOTP", "update") /\ StatusOf(reqs'[s]) = 200)
       => \E u \in RowsWithEmail(users, Val(reqs[s].email)) : u.otp # None]_vars

(* C10: each issued reset token authorises at most one successful
   resetPassword, also when two resetPassword requests with the same token
   are processed concurrently. *)
C10_ResetTokenSingleUse ==
  \A s, t \in Slots :
    (s # t /\ Answered(s, "resetPassword") /\ Answered(t, "resetPassword")
       /\ StatusOf(reqs[s]) = 200 /\ StatusOf(reqs[t]) = 200)
    => reqs[s].token # reqs[t].token

(* C11: round trip. A resetPassword that succeeds with new password p'
   leaves the account with the hash of p' and verified; a login that arrives
   from then on with p' is answered 200 with a session token for that
   account, and a login with another password, the one valid before the
   reset included, is answered 401 "Invalid email or password". *)
C11_ResetThenLogin ==
  [][\A s \in Slots :
       /\ (Resumes(s, "resetPassword", "update")
             => /\ StatusOf(reqs'[s]) = 200
                /\ \E v \in users' :
                     /\ v.id = Val(reqs[s].snap).id
                     /\ v.password = Some(BcryptHash(Val(reqs[s].password)))
                     /\ v.isVerified)
       /\ (Starts(s, "login")
             => \A u \in RowsWithEmail(users, Val(reqs'[s].email)) :
                  u.password # None
                  => reqs'[s].pc = "compare" /\ reqs'[s].snap = Some(u))
       /\ (Resumes(s, "login", "compare") /\ Val(reqs[s].snap).isVerified
             => IF Val(reqs[s].snap).password
                     = Some(BcryptHash(Val(reqs[s].password)))
                THEN /\ StatusOf(reqs'[s]) = 200
                     /\ Val(reqs'[s].resp).token
                          = Some(generateToken(Val(reqs[s].snap).id))
                ELSE reqs'[s].resp = Some(InvalidEmailOrPassword))]_vars

\* After a reset to "password2" of an account signed up with "password1", a
\* login with "password2" was answered 200 and one with "password1" 401.
C11_Witness ==
  \E s, t \in Slots :
    /\ Answered(s, "login") /\ reqs[s].password = Some("password2")
    /\ StatusOf(reqs[s]) = 200
    /\ Answered(t, "login") /\ reqs[t].password = Some("password1")
    /\ reqs[t].resp = Some(InvalidEmailOrPassword)
    /\ \E u \in RowsWithEmail(users, Val(reqs[s].email)) :
         /\ u.password = Some(BcryptHash("password2"))
         /\ u.resetPasswordToken = None /\ u.googleId = None /\ u.otp = None

\* Some row stores the token with an expiry strictly in the future.
C12_Unexpired(token) ==
  \E u \in users :
    /\ u.resetPasswordToken = token
    /\ u.resetPasswordExpires # None
    /\ Val(u.resetPasswordExpires) > now

(* C12: verifyResetToken and resetPassword accept a token exactly when some
   row stores it with resetPasswordExpires strictly after the present; an
   unknown or expired token is answered 400 "Invalid or expired reset token"
   and no row changes. forgotPassword stores an expiry one hour after the
   token was made, so such a token is accepted only within that hour. *)
C12_ResetTokenExpires ==
  [][\A s \in Slots :
       /\ (Starts(s, "verifyResetToken") /\ reqs'[s].token # None
             => /\ users' = users
                /\ IF C12_Unexpired(reqs'[s].token)
                   THEN StatusOf(reqs'[s]) = 200
                   ELSE reqs'[s].resp = Some(InvalidOrExpiredResetToken))
       /\ (Starts(s, "resetPassword") /\ reqs'[s].token # None
             /\ reqs'[s].password # None
             /\ Len(Val(reqs'[s].password)) >= MIN_PASSWORD_LENGTH
             => /\ users' = users
                /\ IF C12_Unexpired(reqs'[s].token)
                   THEN reqs'[s].pc = "update"
                   ELSE reqs'[s].resp = Some(InvalidOrExpiredResetToken))
       /\ (Starts(s, "forgotPassword") /\ reqs'[s].pc = "update"
             => reqs'[s].expires = Some(now + RESET_TTL))
       /\ (Resumes(s, "forgotPassword", "update")
             => \E v \in users' :
                  /\ v.id = Val(reqs[s].snap).id
                  /\ v.resetPasswordToken = reqs[s].token
                  /\ v.resetPasswordExpires = reqs[s].expires)
       /\ \A u \in users :
            u.resetPasswordExpires # None
            => Val(u.resetPasswordExpires) <= now + RESET_TTL]_vars

\* A resetPassword was refused for a token that is stored and whose expiry
\* is the present instant.
C12_Witness ==
  \E s \in Slots :
    /\ Answered(s, "resetPassword")
    /\ reqs[s].resp = Some(InvalidOrExpiredResetToken)
    /\ \E u \in users :
         /\ u.resetPasswordToken = reqs[s].token
         /\ u.resetPasswordExpires = Some(now)

(* C13: in every reachable state every user has otp and otpExpires both
   present or both absent, however requestOTP and verifyOTP interleave with
   each other and with the other flows. *)
C13_OtpPairTogether ==
  \A u \in users : (u.otp = None) <=> (u.otpExpires = None)

\* A verifyOTP has cleared the pair and a requestOTP running beside it has
\* stored a pair again.
C13_Witness ==
  \E s \in Slots :
    /\ Answered(s, "verifyOTP") /\ StatusOf(reqs[s]) = 200
    /\ \E u \in RowsWithEmail(users, Val(reqs[s].email)) :
         u.otp # None /\ u.otpExpires # None

(* C14: in every reachable state every user has resetPasswordToken and
   resetPasswordExpires both present or both absent, however forgotPassword,
   resetPassword, createAdminUser and resendInvitation interleave. *)
C14_ResetPairTogether ==
  \A u \in users :
    (u.resetPasswordToken = None) <=> (u.resetPasswordExpires = None)

\* An invited administrator has set a password, which cleared the pair, and
\* a resendInvitation has stored a pair again.
C14_Witness ==
  \E s \in Slots :
    /\ Answered(s, "resendInvitation")
    /\ reqs[s].resp = Some(InvitationResent)
    /\ \E u \in users :
         /\ u.id = Val(reqs[s].id) /\ u.role = "admin"
         /\ u.password = Some(BcryptHash("password2"))
         /\ u.resetPasswordToken # None /\ u.resetPasswordExpires # None

(* C15: forgotPassword answers with the same status and message for an
   email that has an account and for one that has none. *)
C15_Generic ==
  Message(200, "If an account exists with this email, a password reset link has been sent.")

C15_ForgotPasswordSameResponse ==
  [][\A s \in Slots :
       /\ (Starts(s, "forgotPassword") /\ reqs'[s].email # None
             => IF RowsWithEmail(users, Val(reqs'[s].email)) = {}
                THEN reqs'[s].resp = Some(C15_Generic)
                ELSE reqs'[s].pc = "update")
       /\ (Resumes(s, "forgotPassword", "update")
             /\ (\E u \in users : u.id = Val(reqs[s].snap).id)
             => reqs'[s].resp = Some(C15_Generic))]_vars

\* One forgotPassword was answered for an address with an account, which
\* now holds a reset token, another for an address without one, and what
\* the two callers received is the same.
C15_Witness ==
  \E s, t \in Slots :
    /\ Answered(s, "forgotPassword") /\ Answered(t, "forgotPassword")
    /\ reqs[s].email # None /\ reqs[t].email # None
    /\ \E u \in RowsWithEmail(users, Val(reqs[s].email)) :
         u.resetPasswordToken # None
    /\ RowsWithEmail(users, Val(reqs[t].email)) = {}
    /\ reqs[s].resp = reqs[t].resp

(* C16: requestOTP answers with the same generic success status and message
   when it has created the user and when the user existed before. *)
C16_Generic == Message(200, "OTP sent to your email.")

C16_RequestOtpSameResponse ==
  [][\A s \in Slots :
       /\ (Starts(s, "requestOTP")
             => reqs'[s].pc
                  = IF RowsWithEmail(users, Val(reqs'[s].email)) = {}
                    THEN "create" ELSE "update")
       /\ (Resumes(s, "requestOTP", "create")
             /\ RowsWithEmail(users, Val(reqs[s].email)) = {}
             => reqs'[s].resp = Some(C16_Generic))
       /\ (Resumes(s, "requestOTP", "update")
             /\ RowsWithEmail(users, Val(reqs[s].email)) # {}
             => reqs'[s].resp = Some(C16_Generic))]_vars

\* A requestOTP for a user who existed before, and had verified a code, was
\* answered with the generic success.
C16_Witness ==
  \E s \in Slots :
    /\ Answered(s, "requestOTP") /\ reqs[s].resp = Some(C16_Generic)
    /\ \E u \in RowsWithEmail(users, Val(reqs[s].email)) :
         u.isVerified /\ u.otp # None

(* C17: when two requestOTP calls for the same unknown email have both found
   no user, exactly one row is created, neither call is answered with the
   generic 500 for the violation of the unique index, and the stored OTP pair
   is the complete pair of one of the two requests. *)
C17_RequestOtpRaceNoGenericFailure ==
  [][\A s \in Slots :
       Resumes(s, "requestOTP", "create")
       => /\ Cardinality(RowsWithEmail(users', Val(reqs[s].email))) = 1
          /\ \A u \in RowsWithEmail(users', Val(reqs[s].email)) :
               u.otp # None /\ u.otpExpires # None
          /\ reqs'[s].resp # Some(ServerError)]_vars

(* C18: federated login is idempotent. The first call with an identity
   assertion leaves the user of that email linked to the asserted subject;
   a call with the same assertion that finds the user so linked writes
   nothing, leaves exactly one row with the email, and is answered 200 with
   a session token for that user's id. *)
C18_FederatedLoginIdempotent ==
  [][\A s \in Slots :
       /\ (Resumes(s, "googleAuth", "create") /\ StatusOf(reqs'[s]) = 200
             => \E v \in RowsWithEmail(users', Val(reqs[s].email)) :
                  v.googleId = reqs[s].googleId)
       /\ (Resumes(s, "googleAuth", "update") /\ StatusOf(reqs'[s]) = 200
             => \E v \in RowsWithEmail(users', Val(reqs[s].email)) :
                  v.googleId = reqs[s].googleId)
       /\ (Starts(s, "googleAuth") /\ reqs'[s].email # None
             => \A u \in RowsWithEmail(users, Val(reqs'[s].email)) :
                  u.googleId = reqs'[s].googleId
                  => /\ users' = users
                     /\ Cardinality(RowsWithEmail(users', u.email)) = 1
                     /\ reqs'[s].pc = "done"
                     /\ StatusOf(reqs'[s]) = 200
                     /\ Val(reqs'[s].resp).token
                          = Some(generateToken(u.id)))]_vars

\* Two calls with the same assertion were answered 200 with tokens for the
\* same id, and the one row of the email is the one the first call created.
C18_Witness ==
  \E s, t \in Slots :
    /\ s # t
    /\ Answered(s, "googleAuth") /\ StatusOf(reqs[s]) = 200
    /\ Answered(t, "googleAuth") /\ StatusOf(reqs[t]) = 200
    /\ reqs[s].email = reqs[t].email /\ reqs[s].googleId = reqs[t].googleId
    /\ Val(Val(reqs[s].resp).token).id = Val(Val(reqs[t].resp).token).id
    /\ Cardinality(RowsWithEmail(users, Val(reqs[s].email))) = 1
    /\ \E u \in RowsWithEmail(users, Val(reqs[s].email)) :
         /\ u.googleId = reqs[s].googleId
         /\ u.password = None /\ u.name = "Google User"

\* The columns a federated link must leave alone.
C19_Frame(u) ==
  [id |-> u.id, email |-> u.email, name |-> u.name, password |-> u.password,
   role |-> u.role, otp |-> u.otp, otpExpires |-> u.otpExpires,
   verificationToken |-> u.verificationToken,
   resetPasswordToken |-> u.resetPasswordToken,
   resetPasswordExpires |-> u.resetPasswordExpires]

(* C19: federated login for an email whose user has no googleId sets googleId
   to the asserted subject and isVerified to true, keeps an image the user
   had (storing the asserted image only when the user had none), and leaves
   name, password, role and the OTP, reset and verification-token fields as
   they were; no other row changes. *)
C19_LinkFrame ==
  [][\A s \in Slots :
       /\ (Starts(s, "googleAuth") /\ reqs'[s].email # None
             => \A u \in RowsWithEmail(users, Val(reqs'[s].email)) :
                  u.googleId = None
                  => reqs'[s].pc = "update" /\ reqs'[s].snap = Some(u))
       /\ (Resumes(s, "googleAuth", "update") /\ StatusOf(reqs'[s]) = 200
             => \E u \in users, v \in users' :
                  /\ u.email = Val(reqs[s].email) /\ v.id = u.id
                  /\ users' \ {v} = users \ {u}
                  /\ v.googleId = reqs[s].googleId
                  /\ v.isVerified
                  /\ v.image = IF u.image # None \/ reqs[s].image = None
                               THEN u.image
                               ELSE reqs[s].image
                  /\ C19_Frame(v) = C19_Frame(u))]_vars

(* C20: when two first-time federated logins for one email, or a federated
   login and a signup for one email, have both found no user, one row is
   created for the email and the request whose create loses on the unique
   index writes nothing and is answered with a conflict (a 4xx), not with
   the generic 500 "Internal server error". *)
C20_FirstTimeRaceLoserGetsConflict ==
  [][\A s \in Slots :
       ((Resumes(s, "googleAuth", "create") \/ Resumes(s, "signup", "create"))
          /\ \E t \in Slots \ {s} :
               /\ reqs[t].kind = "googleAuth" /\ reqs[t].pc = "done"
               /\ reqs[t].email = reqs[s].email
               /\ StatusOf(reqs[t]) = 200
          /\ RowsWithEmail(users, Val(reqs[s].email)) # {})
       => /\ Cardinality(RowsWithEmail(users', Val(reqs[s].email))) = 1
          /\ reqs'[s].resp # Some(ServerError)
          /\ StatusOf(reqs'[s]) \in 400..499]_vars

(* C21: in every reachable state, whatever the interleaving of signup,
   federated login, OTP request, admin creation and admin update, no two
   rows of users have the same email and no two rows have the same
   googleId. *)
C21_EmailAndGoogleIdUnique ==
  \A u \in users, v \in users :
    u # v => /\ u.id # v.id
             /\ u.email # v.email
             /\ (u.googleId # None => u.googleId # v.googleId)

\* An admin update that moves a row onto an address another row holds, and a
\* federated login that asserts a subject another row holds, have both run
\* into the index.
C21_Witness ==
  /\ Cardinality(users) = 3
  /\ \E u \in users : u.googleId # None
  /\ \E s \in Slots :
       /\ Answered(s, "updateAdminUser")
       /\ reqs[s].resp = Some(FailedToUpdateAdmin)
       /\ \E u \in users : u.email = Val(reqs[s].email) /\ u.id # Val(reqs[s].id)
  /\ \E s \in Slots :
       /\ Answered(s, "googleAuth") /\ reqs[s].resp = Some(ServerError)
       /\ \E u \in users :
            u.googleId = reqs[s].googleId /\ u.email # Val(reqs[s].email)

\* The routes behind authenticate that the session specification calls.
C22_Protected == {"changePassword", "deleteAdminUser"}

\* The header of the request is bearer-shaped, its token is signed with the
\* secret and was issued less than a day ago, and the user it names exists.
C22_Admissible(r) ==
  /\ r.bearer # None
  /\ Val(r.bearer).scheme = "Bearer"
  /\ Val(r.bearer).token.key = JWT_SECRET
  /\ now - Val(r.bearer).token.iat < JWT_TTL
  /\ \E u \in users : u.id = Val(r.bearer).token.id

(* C22: authenticate lets a request through to the handler, with a principal
   attached, only if its Authorization header is bearer-shaped, the token is
   signed with the secret, the token was issued less than one day ago and
   the user with the embedded id exists; every other request is answered 401
   at once and nothing is written. The principal carries the id, email, role
   and name of the row with the embedded id as the table has it when the
   request arrives. *)
C22_AuthenticateGate ==
  [][\A s \in Slots, k \in C22_Protected :
       Starts(s, k)
       => IF C22_Admissible(reqs'[s])
          THEN /\ (reqs'[s].pc = "done" => StatusOf(reqs'[s]) # 401)
               /\ (reqs'[s].pc # "done"
                     => \E u \in users :
                          /\ u.id = Val(reqs'[s].bearer).token.id
                          /\ reqs'[s].principal
                               = Some([id |-> u.id, email |-> u.email,
                                       role |-> u.role, name |-> u.name]))
          ELSE /\ reqs'[s].pc = "done"
               /\ StatusOf(reqs'[s]) = 401
               /\ reqs'[s].principal = None
               /\ users' = users]_vars

\* A day after the start a request sent with a token issued half a day
\* before is in its handler with a principal, while a request sent with the
\* token of a deleted user has been answered 401.
C22_Witness ==
  /\ now = JWT_TTL
  /\ \E s \in Slots :
       /\ reqs[s].kind = "changePassword" /\ reqs[s].pc = "find"
       /\ reqs[s].principal # None
       /\ Val(reqs[s].bearer).token.iat = JWT_TTL \div 2
  /\ \E s \in Slots :
       /\ Answered(s, "changePassword")
       /\ reqs[s].resp = Some(UserNotFound)
       /\ now < Val(reqs[s].bearer).token.iat + JWT_TTL

(* C23: deletion takes effect at once: once the row of a user is gone, a
   request that arrives with a token issued to that user, expired or not, is
   answered 401 by authenticate, no handler runs for it and nothing is
   written. *)
C23_DeletedUserRejected ==
  [][\A s \in Slots, k \in C22_Protected :
       (/\ Starts(s, k)
        /\ reqs'[s].bearer # None
        /\ Val(reqs'[s].bearer).scheme = "Bearer"
        /\ Val(reqs'[s].bearer).token.key = JWT_SECRET
        /\ \A u \in users : u.id # Val(reqs'[s].bearer).token.id)
       => /\ reqs'[s].pc = "done"
          /\ reqs'[s].resp \in {Some(UserNotFound), Some(InvalidOrExpiredToken)}
          /\ StatusOf(reqs'[s]) = 401
          /\ users' = users]_vars

\* An administrator was deleted, and a request sent afterwards with the
\* unexpired token of that administrator was answered 401.
C23_Witness ==
  \E s \in Slots, t \in Slots :
    /\ Answered(s, "deleteAdminUser") /\ reqs[s].resp = Some(AdminDeleted)
    /\ Answered(t, "changePassword") /\ reqs[t].resp = Some(UserNotFound)
    /\ Val(reqs[t].bearer).token.id = Val(reqs[s].id)
    /\ now < Val(reqs[t].bearer).token.iat + JWT_TTL
    /\ \A u \in users : u.id # Val(reqs[s].id)

\* The admin user routes.
C24_AdminRoutes == {"createAdminUser", "updateAdminUser", "deleteAdminUser"}

\* The answers of the two middlewares.
C24_Unauthenticated ==
  {Some(NoTokenProvided), Some(InvalidOrExpiredToken), Some(UserNotFound)}

\* The row the token of the request names, if any.
C24_Caller(r) ==
  IF r.bearer # None /\ Val(r.bearer).scheme = "Bearer"
     /\ Val(r.bearer).token.key = JWT_SECRET
  THEN {u \in users : u.id = Val(r.bearer).token.id}
  ELSE {}

(* C24: on the admin routes the controller runs only for a request whose
   principal has role admin. The role gate comes after authenticate: a
   request authenticate rejects is answered 401, a request whose principal
   is not an admin is answered 403 "Access denied" at once, and in both
   cases the handler does not run and nothing is written. The gate also
   refuses a request with no principal at all. *)
C24_AdminOnly ==
  [][/\ ~isAdmin(None)
     /\ \A s \in Slots, k \in C24_AdminRoutes :
          Starts(s, k)
          => LET r == reqs'[s]
                 caller == C24_Caller(r)
             IN IF caller = {}
                THEN /\ r.pc = "done" /\ r.resp \in C24_Unauthenticated
                     /\ users' = users
                ELSE IF \E u \in caller : u.role # "admin"
                THEN /\ r.pc = "done" /\ r.resp = Some(AccessDenied)
                     /\ StatusOf(r) = 403
                     /\ users' = users
                ELSE /\ r.resp \notin C24_Unauthenticated
                     /\ r.resp # Some(AccessDenied)
                     /\ (r.pc # "done"
                           => /\ r.principal # None
                              /\ Val(r.principal).role = "admin")]_vars

\* A user who signed in through Google was refused by the role gate, and the
\* administrator's request is in the handler.
C24_Witness ==
  \E s \in Slots, t \in Slots :
    /\ Answered(s, "deleteAdminUser") /\ reqs[s].resp = Some(AccessDenied)
    /\ \E u \in users :
         /\ u.id = Val(reqs[s].bearer).token.id
         /\ u.role = "user" /\ u.googleId # None
    /\ reqs[t].kind = "createAdminUser" /\ reqs[t].pc = "find"
    /\ Val(reqs[t].principal).role = "admin"

\* The flows that send mail.
C25_Mailing ==
  {"signup", "requestOTP", "forgotPassword", "createAdminUser",
   "resendInvitation"}

(* C25: in every flow that sends mail (signup, OTP request, forgot password,
   admin invitation and its resend) the dispatch is started only once the
   row is written and the handler answers with its success response; when
   the dispatch then settles, delivered or failed, the response and the
   table stay as they were, so a failure never becomes an error response. *)
C25_DispatchFailureSwallowed ==
  [][\A s \in Slots :
       /\ (\E k \in C25_Mailing, pc \in {"create", "update"} :
              Resumes(s, k, pc) /\ StatusOf(reqs'[s]) \in {200, 201})
            => /\ reqs'[s].mail # None
               /\ Val(reqs'[s].mail).state = "pending"
       /\ (reqs[s].mail # None /\ Val(reqs[s].mail).state = "pending"
              /\ reqs'[s].mail # None
              /\ Val(reqs'[s].mail).state \in {"sent", "failed"})
            => /\ users' = users
               /\ reqs'[s].resp = reqs[s].resp
               /\ reqs'[s].kind \in C25_Mailing
               /\ StatusOf(reqs'[s]) \in {200, 201}]_vars

\* The verification mail of a signup and the mail of a password reset both
\* failed; the signup stays answered 201 with its row in place and the
\* forgot-password request stays answered 200 with the token stored.
C25_Witness ==
  \E s \in Slots, t \in Slots :
    /\ Answered(s, "signup") /\ reqs[s].resp = Some(UserCreated)
    /\ Val(reqs[s].mail).state = "failed"
    /\ \E u \in RowsWithEmail(users, Val(reqs[s].email)) :
         u.verificationToken # None
    /\ Answered(t, "forgotPassword") /\ reqs[t].resp = Some(ResetLinkSent)
    /\ reqs[t].mail # None /\ Val(reqs[t].mail).state = "failed"
    /\ \E u \in RowsWithEmail(users, Val(reqs[t].email)) :
         u.resetPasswordToken # None

\* The rows that hold the verification token.
C26_Holders(rows, token) == {u \in rows : u.verificationToken = token}

(* C26: verifyEmail with a token that no user holds is answered 400 "Invalid
   or expired verification token" and changes nothing; with a token a user
   holds it sets isVerified of that user, clears the verificationToken and
   touches nothing else, after which no user holds the token, so a later
   verifyEmail with the same token is refused. *)
C26_VerifyEmailConsumesToken ==
  [][\A s \in Slots :
       /\ (Starts(s, "verifyEmail") /\ reqs'[s].token # None
             => /\ users' = users
                /\ IF C26_Holders(users, reqs'[s].token) = {}
                   THEN /\ reqs'[s].pc = "done"
                        /\ reqs'[s].resp
                             = Some(InvalidOrExpiredVerificationToken)
                   ELSE /\ reqs'[s].pc = "update"
                        /\ Val(reqs'[s].snap)
                             \in C26_Holders(users, reqs'[s].token))
       /\ (Resumes(s, "verifyEmail", "update") /\ StatusOf(reqs'[s]) = 200
             => /\ \E u \in users :
                     /\ u.id = Val(reqs[s].snap).id
                     /\ users' = (users \ {u})
                                   \cup {[u EXCEPT !.isVerified = TRUE,
                                                   !.verificationToken = None]}
                /\ C26_Holders(users', reqs[s].token) = {})]_vars

\* A verification link was used, and using it again was refused: the user
\* is verified and no longer holds a token.
C26_Witness ==
  \E s \in Slots, t \in Slots :
    /\ Answered(s, "verifyEmail") /\ reqs[s].resp = Some(EmailVerified)
    /\ Answered(t, "verifyEmail")
    /\ reqs[t].resp = Some(InvalidOrExpiredVerificationToken)
    /\ reqs[t].token = reqs[s].token
    /\ \E u \in users : u.isVerified /\ u.verificationToken = None
                          /\ u.password # None

(* C27: requestOTP for an existing user replaces the stored pair: the row then
   holds the code of that request and an expiry 10 minutes after the request
   arrived, and nothing of the earlier pair. A verifyOTP is let through only
   with the code the row holds now and not after the expiry the row holds
   now, so a different earlier code is refused even inside its own 10
   minutes. *)
C27_OtpReplaced ==
  [][\A s \in Slots :
       /\ (Starts(s, "requestOTP")
             => reqs'[s].expires = Some(now + OTP_TTL))
       /\ (Resumes(s, "requestOTP", "update") /\ StatusOf(reqs'[s]) = 200
             => \E u \in users :
                  /\ u.email = Val(reqs[s].email)
                  /\ users' = (users \ {u})
                                \cup {[u EXCEPT !.otp = reqs[s].otp,
                                                !.otpExpires = reqs[s].expires]}
                  /\ Val(reqs[s].expires) <= now + OTP_TTL)
       /\ (Starts(s, "verifyOTP") /\ reqs'[s].pc # "done"
             => \E u \in RowsWithEmail(users, Val(reqs'[s].email)) :
                  /\ u.otp = reqs'[s].otp /\ u.otp # None
                  /\ now <= Val(u.otpExpires))
       /\ (Starts(s, "verifyOTP") /\ reqs'[s].pc = "done"
             => /\ reqs'[s].resp = Some(C7_InvalidOrExpiredOtp)
                /\ users' = users)]_vars

\* The code of an earlier request is refused less than 10 minutes after the
\* start, because a later request has stored another code that is still
\* good.
C27_Witness ==
  \E s \in Slots, t \in Slots :
    /\ now < OTP_TTL
    /\ Answered(s, "verifyOTP") /\ reqs[s].otp = Some("111111")
    /\ reqs[s].resp = Some(C7_InvalidOrExpiredOtp)
    /\ Answered(t, "requestOTP") /\ StatusOf(reqs[t]) = 200
    /\ \E u \in RowsWithEmail(users, Val(reqs[s].email)) :
         /\ u.otp = Some("222222")
         /\ now <= Val(u.otpExpires)
         /\ Val(u.otpExpires) > OTP_TTL

\* A row as requestOTP provisions it: named after the local part of its
\* address, without a password.
C28_Provisioned(u) == u.name = LocalPart(u.email) /\ u.password = None

(* C28 as stated: a user provisioned by requestOTP becomes verified only by
   the update of a successful verifyOTP. *)
C28_VerifiedOnlyByVerifyOtp ==
  [][\A u \in users, v \in users' :
       (v.id = u.id /\ C28_Provisioned(u) /\ ~u.isVerified /\ v.isVerified)
       => \E t \in Slots : Resumes(t, "verifyOTP", "update")]_vars

\* The flows whose update marks a provisioned account verified.
C28_VerifyingKinds == {"verifyOTP", "googleAuth", "resetPassword"}

(* C28 amended: requestOTP provisions the user with isVerified false and no
   password and issues no session token; the user becomes verified only by
   the update of a successful verifyOTP, of a federated login that links the
   account, or of a resetPassword; and every session token handed out names
   a user who is verified by then. *)
C28_ProvisionedStaysUnverified ==
  [][/\ \A s \in Slots :
          /\ (Resumes(s, "requestOTP", "create") /\ StatusOf(reqs'[s]) = 200
                => /\ Val(reqs'[s].resp).token = None
                   /\ \E u \in users' \ users :
                        /\ u.email = Val(reqs[s].email)
                        /\ ~u.isVerified /\ u.password = None
                        /\ u.googleId = None /\ C28_Provisioned(u))
          /\ (reqs'[s] # reqs[s] /\ reqs'[s].pc = "done"
                /\ Val(reqs'[s].resp).token # None
                => \E v \in users' :
                     /\ v.id = Val(Val(reqs'[s].resp).token).id
                     /\ v.isVerified)
     /\ \A u \in users, v \in users' :
          (v.id = u.id /\ C28_Provisioned(u) /\ ~u.isVerified /\ v.isVerified)
          => \E t \in Slots, k \in C28_VerifyingKinds :
               Resumes(t, k, "update")]_vars

\* A user provisioned by requestOTP confirmed the code and holds a session
\* token; the row is verified and still has no password.
C28_Witness ==
  \E s \in Slots :
    /\ Answered(s, "verifyOTP") /\ StatusOf(reqs[s]) = 200
    /\ \E u \in RowsWithEmail(users, Val(reqs[s].email)) :
         /\ C28_Provisioned(u) /\ u.isVerified /\ u.googleId = None
         /\ Val(Val(reqs[s].resp).token).id = u.id

\* The row of the principal of a request, if it is still there.
C29_Record(r) == {u \in users : u.id = Val(r.principal).id}

(* C29 as stated, with InvalidCredentials the 401 outcome that login gives
   for a bad password: a changePassword whose current password does not
   match the stored hash is answered 401. *)
C29_WrongCurrentIsInvalidCredentials ==
  [][\A s \in Slots :
       (Resumes(s, "changePassword", "find")
          /\ \E u \in C29_Record(reqs[s]) :
               u.password # None
               /\ ~BcryptCompare(Val(reqs[s].password), Val(u.password)))
       => StatusOf(reqs'[s]) = 401]_vars

(* C29 amended: for an authenticated principal changePassword answers 400 when
   a password is missing or the new one is shorter than 8 characters, 404
   "User not found" when the principal's row is gone, and 400 "Incorrect
   current password" when the current password does not match the stored
   hash; in all these cases nothing is written. Otherwise it stores the hash
   of the new password, touching nothing else, and answers 200 without a
   session token; login then succeeds exactly with the password whose hash
   is stored. *)
C29_ChangePassword ==
  [][\A s \in Slots :
       /\ (Starts(s, "changePassword")
             /\ (reqs'[s].pc = "done" => StatusOf(reqs'[s]) # 401)
             => /\ users' = users
                /\ IF reqs'[s].password = None \/ reqs'[s].newPassword = None
                   THEN reqs'[s].resp = Some(PasswordsRequired)
                   ELSE IF Len(Val(reqs'[s].newPassword)) < 8
                   THEN /\ reqs'[s].resp = Some(NewPasswordTooShort)
                        /\ StatusOf(reqs'[s]) = 400
                   ELSE reqs'[s].pc = "find")
       /\ (Resumes(s, "changePassword", "find")
             => /\ users' = users
                /\ IF C29_Record(reqs[s]) = {}
                   THEN /\ reqs'[s].resp = Some(UserRecordNotFound)
                        /\ StatusOf(reqs'[s]) = 404
                   ELSE \A u \in C29_Record(reqs[s]) :
                          u.password # None
                          => IF BcryptCompare(Val(reqs[s].password),
                                              Val(u.password))
                             THEN reqs'[s].pc = "update"
                             ELSE /\ reqs'[s].resp
                                       = Some(IncorrectCurrentPassword)
                                  /\ StatusOf(reqs'[s]) = 400)
       /\ (Resumes(s, "changePassword", "update")
             => IF StatusOf(reqs'[s]) = 200
                THEN /\ reqs'[s].resp = Some(PasswordUpdated)
                     /\ Val(reqs'[s].resp).token = None
                     /\ \E u \in C29_Record(reqs[s]) :
                          users' = (users \ {u})
                            \cup {[u EXCEPT !.password =
                                     Some(BcryptHash(Val(reqs[s].newPassword)))]}
                ELSE users' = users)
       /\ (Resumes(s, "login", "compare")
             => (StatusOf(reqs'[s]) = 200
                  <=> Val(reqs[s].snap).password
                       = Some(BcryptHash(Val(reqs[s].password)))))]_vars

\* After a change from password1 to password2 a login with password2 was
\* answered 200 and a login with password1 was answered 401.
C29_Witness ==
  \E s \in Slots, t \in Slots :
    /\ Answered(s, "login") /\ StatusOf(reqs[s]) = 200
    /\ reqs[s].password = Some("password2")
    /\ Answered(t, "login") /\ StatusOf(reqs[t]) = 401
    /\ reqs[t].password = Some("password1")
    /\ reqs[t].email = reqs[s].email
    /\ \E u \in RowsWithEmail(users, Val(reqs[s].email)) :
         u.password = Some(BcryptHash("password2"))


(* ---------------- C30: the invited administrator ---------------- *)

\* the rows an invitation created and nobody has set a password on yet
C30_Invited == {u \in users : u.role = "admin" /\ u.password = None}

\* C30 as the specification words it: an invited administrator gets a
\* password only from a resetPassword that presented the invitation's own
\* token, the one stored with the seven-day expiry (the clock stands still
\* in SpecInvite, so that pair is the one expiring at now + INVITE_TTL).
C30_PasswordOnlyByInvitationToken ==
  [][\A u \in C30_Invited, v \in users' :
       (v.id = u.id /\ v.password # None) =>
         \E t \in Slots :
           /\ Resumes(t, "resetPassword", "update")
           /\ Val(reqs[t].snap).resetPasswordExpires = Some(now + INVITE_TTL)]_vars

\* C30: createAdminUser stores a row with role admin, no passwordHash,
\* isVerified true and a reset pair expiring INVITE_TTL (7 days) later and
\* issues no session token; while the row has no passwordHash every login
\* for it is answered 401; the row gets a passwordHash only from a
\* resetPassword that found it by its stored, unexpired reset token
\* (the invitation's or one a later forgotPassword stored), and the hash is
\* that of the password chosen there; a login that then presents the chosen
\* password is answered 200 with a session token.
C30_InvitedAdministrator ==
  [][/\ \A s \in Slots :
          (/\ Resumes(s, "createAdminUser", "create")
           /\ StatusOf(reqs'[s]) = 201) =>
            /\ Val(reqs'[s].resp).token = None
            /\ \E v \in users' \ users :
                 /\ v.email = Val(reqs[s].email)
                 /\ v.role = "admin"
                 /\ v.password = None
                 /\ v.isVerified
                 /\ v.resetPasswordToken # None
                 /\ v.resetPasswordExpires = Some(now + INVITE_TTL)
     /\ \A s \in Slots, u \in C30_Invited :
          (Starts(s, "login") /\ reqs'[s].email = Some(u.email)) =>
            /\ reqs'[s].pc = "done"
            /\ StatusOf(reqs'[s]) = 401
     /\ \A u \in C30_Invited, v \in users' :
          (v.id = u.id /\ v.password # None) =>
            \E t \in Slots :
              /\ Resumes(t, "resetPassword", "update")
              /\ Val(reqs[t].snap).id = u.id
              /\ Val(reqs[t].snap).resetPasswordToken = reqs[t].token
              /\ v.password = Some(BcryptHash(Val(reqs[t].password)))
              /\ v.resetPasswordToken = None
     /\ \A s \in Slots :
          (/\ Resumes(s, "login", "compare")
           /\ Val(reqs[s].snap).role = "admin"
           /\ Val(reqs[s].snap).email = EmailA
           /\ BcryptCompare(Val(reqs[s].password),
                            Val(Val(reqs[s].snap).password))) =>
            /\ StatusOf(reqs'[s]) = 200
            /\ Val(reqs'[s].resp).token # None]_vars

\* the invited administrator was refused at login, set a password and
\* signed in with it
C30_Witness ==
  \E s, t \in Slots, u \in users :
    /\ u.email = EmailA /\ u.role = "admin"
    /\ u.password = Some(BcryptHash("password2"))
    /\ u.resetPasswordToken = None
    /\ Answered(s, "login") /\ StatusOf(reqs[s]) = 200
    /\ Val(reqs[s].resp).token # None
    /\ Answered(t, "login") /\ StatusOf(reqs[t]) = 401


(* ---------------- C31: the frame of forgotPassword ---------------- *)

\* The columns forgotPassword must leave alone.
C31_Frame(u) ==
  [id |-> u.id, email |-> u.email, name |-> u.name, password |-> u.password,
   image |-> u.image, googleId |-> u.googleId, role |-> u.role,
   otp |-> u.otp, otpExpires |-> u.otpExpires,
   isVerified |-> u.isVerified, verificationToken |-> u.verificationToken]

(* C31: forgotPassword for an email no user has is answered at once and
   leaves the users table as it was; for a registered email its lookup
   writes nothing and its update changes, on that user only, the reset pair:
   password, isVerified, the OTP pair, verificationToken and every other
   column stay, no row is added or removed, so login answers every password
   for that user after the update as it did before it. *)
C31_ForgotPasswordFrame ==
  [][\A s \in Slots :
       /\ (Starts(s, "forgotPassword") /\ reqs'[s].email # None
             /\ RowsWithEmail(users, Val(reqs'[s].email)) = {}
           => /\ reqs'[s].pc = "done"
              /\ users' = users /\ nextId' = nextId /\ nextTok' = nextTok)
       /\ (Starts(s, "forgotPassword") => users' = users)
       /\ (Resumes(s, "forgotPassword", "update")
           => \/ reqs'[s].resp = Some(ServerError) /\ users' = users
              \/ \E u \in users, v \in users' :
                   /\ u.email = Val(reqs[s].email) /\ v.id = u.id
                   /\ users' \ {v} = users \ {u}
                   /\ C31_Frame(v) = C31_Frame(u)
                   /\ v.resetPasswordToken # None
                   /\ v.resetPasswordExpires = Some(now + RESET_TTL)
                   /\ LoginRejectsUser(Some(v)) = LoginRejectsUser(Some(u))
                   /\ (~LoginRejectsUser(Some(u)) =>
                         \A pw \in Passwords :
                           LoginReply(v, pw).status = LoginReply(u, pw).status))]_vars

\* a user with a password asked for a reset link and then signed in with the
\* old password while the reset pair was still stored
C31_Witness ==
  \E s \in Slots, u \in users :
    /\ u.email = EmailA
    /\ u.resetPasswordToken # None
    /\ u.password = Some(BcryptHash("password1"))
    /\ Answered(s, "login") /\ StatusOf(reqs[s]) = 200
    /\ reqs[s].email = Some(EmailA)


(* ---------------- C32: session tokens go to verified users ---------------- *)

\* the requests answered in this step with a session token
C32_Issued == {s \in Slots : /\ reqs'[s] # reqs[s]
                             /\ reqs'[s].pc = "done"
                             /\ Val(reqs'[s].resp).token # None}

(* C32: whenever login, federated login, verifyOTP or resetPassword answers
   with a session token, the stored user the token names has isVerified true
   at that moment; and no step of any flow turns the isVerified of a stored
   user from true to false. *)
C32_TokenOnlyForVerified ==
  [][/\ \A s \in C32_Issued :
          /\ reqs'[s].kind \in {"login", "googleAuth", "verifyOTP", "resetPassword"}
          /\ \E u \in users' :
               /\ u.id = Val(Val(reqs'[s].resp).token).id
               /\ u.isVerified
     /\ \A u \in users, v \in users' :
          (v.id = u.id /\ u.isVerified) => v.isVerified]_vars

\* a token from resetPassword and one from federated login are both out for
\* a verified user, who had signed up unverified
C32_Witness ==
  \E s, t \in Slots, u \in users :
    /\ Answered(s, "resetPassword") /\ Val(reqs[s].resp).token # None
    /\ Answered(t, "googleAuth") /\ Val(reqs[t].resp).token # None
    /\ u.id = Val(Val(reqs[s].resp).token).id
    /\ u.id = Val(Val(reqs[t].resp).token).id
    /\ u.isVerified /\ u.password # None /\ u.googleId # None


(* C33: in every reachable state a user with isVerified true has no stored
   verificationToken, whichever of verifyEmail, verifyOTP, the federated
   link or resetPassword verified the account. *)
C33_VerifiedHasNoVerificationToken ==
  \A u \in users : u.isVerified => u.verificationToken = None


(* C34: a federated login that finds a user who already has a googleId
   answers with a session token only when the subject id resolved from the
   request equals the googleId stored for that user. *)
C34_TokenOnlyForStoredSubject ==
  [][\A s \in Slots :
       (/\ Starts(s, "googleAuth")
        /\ reqs'[s].pc = "done"
        /\ Val(reqs'[s].resp).token # None)
       => \A u \in users :
            (u.id = Val(Val(reqs'[s].resp).token).id /\ u.googleId # None)
            => u.googleId = reqs'[s].googleId]_vars


(* ---------------- C35: one redeemable reset token ---------------- *)

\* the rows of `rows` a reset token would be taken for at this instant
C35_Redeems(rows, token) ==
  {u \in rows : /\ u.resetPasswordToken = token
                /\ u.resetPasswordExpires # None
                /\ Val(u.resetPasswordExpires) > now}

(* C35: at any time at most one reset token is redeemable for a user. A
   forgotPassword or resendInvitation that succeeds stores its new token on
   the user, and from then on the token the user had before is taken for
   nobody although it has not expired; a resetPassword or verifyResetToken
   presenting a token that is taken for nobody is answered 400 at once and
   writes nothing. *)
C35_OneRedeemableResetToken ==
  [][/\ \A u \in users :
          Cardinality({t \in 1..MaxTokens : u \in C35_Redeems(users, Some(t))}) <= 1
     /\ \A s \in Slots :
          ((Resumes(s, "forgotPassword", "update")
              \/ Resumes(s, "resendInvitation", "update"))
           /\ StatusOf(reqs'[s]) = 200)
          => \E u \in users, v \in users' :
               /\ u.id = Val(reqs[s].snap).id /\ v.id = u.id
               /\ v.resetPasswordToken = reqs[s].token
               /\ v \in C35_Redeems(users', reqs[s].token)
               /\ u.resetPasswordToken # reqs[s].token
               /\ C35_Redeems(users', u.resetPasswordToken) = {}
     /\ \A s \in Slots :
          ((Starts(s, "resetPassword") \/ Starts(s, "verifyResetToken"))
           /\ C35_Redeems(users, reqs'[s].token) = {})
          => /\ reqs'[s].pc = "done"
             /\ StatusOf(reqs'[s]) = 400
             /\ users' = users]_vars

\* forgotPassword replaced the invitation's token (1) by a new one (2) and
\* the invitation's token, seven days from expiry, was then refused
C35_Witness ==
  \E s, t \in Slots, u \in users :
    /\ Answered(t, "forgotPassword") /\ StatusOf(reqs[t]) = 200
    /\ reqs[t].mail # None
    /\ u.email = EmailA /\ u.resetPasswordToken = Some(2)
    /\ u \in C35_Redeems(users, Some(2))
    /\ reqs[s].kind \in {"verifyResetToken", "resetPassword"}
    /\ reqs[s].pc = "done"
    /\ reqs[s].token = Some(1) /\ StatusOf(reqs[s]) = 400


(* ---------------- C36: verifyResetToken is a pure probe ---------------- *)

\* a row stores the token with an expiry still ahead of the clock
C36_Redeemable(token) ==
  token # None /\ \E u \in users : ResetTokenMatches(u, token)

(* C36: verifyResetToken writes nothing (the token it looks at stays
   stored), and it answers 200 for a token exactly when a resetPassword
   presenting that token and a password of at least 8 characters at the same
   instant gets past its lookup and, its write following at once, is
   answered 200. *)
C36_VerifyResetTokenProbe ==
  [][\A s \in Slots :
       /\ (Starts(s, "verifyResetToken")
           => /\ users' = users /\ nextId' = nextId /\ nextTok' = nextTok
              /\ reqs'[s].pc = "done"
              /\ (StatusOf(reqs'[s]) = 200 <=> C36_Redeemable(reqs'[s].token)))
       /\ (Starts(s, "resetPassword") /\ reqs'[s].password = Some("password2")
           => (reqs'[s].pc = "update" <=> C36_Redeemable(reqs'[s].token)))
       /\ (Resumes(s, "resetPassword", "update")
             /\ C36_Redeemable(reqs[s].token)
             /\ (\E u \in users : u.id = Val(reqs[s].snap).id)
           => StatusOf(reqs'[s]) = 200)]_vars

\* a token was probed, found valid, and then redeemed by the resetPassword
\* that was already under way
C36_Witness ==
  \E s, t \in Slots, u \in users :
    /\ Answered(s, "verifyResetToken") /\ StatusOf(reqs[s]) = 200
    /\ Answered(t, "resetPassword") /\ StatusOf(reqs[t]) = 200
    /\ reqs[s].token = reqs[t].token
    /\ u.password = Some(BcryptHash("password2"))
    /\ u.resetPasswordToken = None


(* C37: from a state with at least one administrator, however the
   deleteAdminUser requests of authenticated administrators interleave, at
   least one row with role admin remains stored. *)
C37_AnAdminRemains ==
  \E u \in users : u.role = "admin"


(* ---------------- C38: updateProfileImage ---------------- *)

\* The columns updateProfileImage must leave alone.
C38_Frame(u) ==
  [id |-> u.id, email |-> u.email, name |-> u.name, password |-> u.password,
   googleId |-> u.googleId, role |-> u.role,
   otp |-> u.otp, otpExpires |-> u.otpExpires,
   isVerified |-> u.isVerified, verificationToken |-> u.verificationToken,
   resetPasswordToken |-> u.resetPasswordToken,
   resetPasswordExpires |-> u.resetPasswordExpires]

(* C38: an updateProfileImage that succeeds stores, on the authenticated
   user and on no other row, exactly the URL the upload returned, and
   changes no other column; a request without an image, one whose upload
   fails and one whose update fails are answered with an error (4xx or 5xx)
   and write nothing, so the stored image stays. *)
C38_ProfileImage ==
  [][\A s \in Slots :
       /\ (Starts(s, "updateProfileImage")
           => /\ users' = users
              /\ (reqs'[s].image = None
                    => reqs'[s].pc = "done" /\ StatusOf(reqs'[s]) \in 400..499))
       /\ (Resumes(s, "updateProfileImage", "upload")
           => /\ users' = users
              /\ (reqs'[s].pc = "done" => StatusOf(reqs'[s]) \in 500..599))
       /\ (Resumes(s, "updateProfileImage", "update")
           => \/ /\ StatusOf(reqs'[s]) \in 400..599
                 /\ users' = users
              \/ /\ StatusOf(reqs'[s]) = 200
                 /\ \E u \in users, v \in users' :
                      /\ u.id = Val(reqs[s].principal).id /\ v.id = u.id
                      /\ users' \ {v} = users \ {u}
                      /\ v.image = Some(UploadUrl(Val(reqs[s].image)))
                      /\ C38_Frame(v) = C38_Frame(u)
                      /\ Val(reqs'[s].resp).user = Some(PublicUser(v)))]_vars

\* a signed-in user's upload was stored and answered 200
C38_Witness ==
  \E s \in Slots, u \in users :
    /\ Answered(s, "updateProfileImage") /\ StatusOf(reqs[s]) = 200
    /\ reqs[s].image = Some("f.png")
    /\ u.image = Some(UploadUrl("f.png"))
    /\ u.password # None /\ u.isVerified


(* C39: whenever no upsertRating or deleteRating request is in flight,
   there is at most one rating row per (user, listing) and every listing's
   stored reviewCount is the number of rating rows for that listing. *)
C39_AggregateMatchesRatings ==
  (\A s \in Slots : Vacant(s))
  => /\ \A x, y \in ratings :
          (x.userId = y.userId /\ x.listingId = y.listingId) => x = y
     /\ \A l \in listings :
          l.reviewCount = Cardinality(AllRatings(l.id))

====
